---- MODULE Spec2Model ----
(***************************************************************************)
(* Lexicalization core of pypolibox: content messages about a book are     *)
(* turned into nested HLDS "diamond" trees.  The module models the tree    *)
(* builders of lexicalization.py as operators and the calls a client makes *)
(* as actions over the client's variables (the lexicalized authors, title  *)
(* and programming-language trees it holds and the last value returned).   *)
(***************************************************************************)
EXTENDS Integers, Sequences, FiniteSets, TLC

VARIABLES
    call,        \* the last call: its name and its arguments
    result,      \* the value the last call returned, or its failure
    authorsFrom, \* the author names and the mode authorsT was built from
    authorsT,    \* the client's lexicalized authors tree (None before)
    titleT,      \* the client's lexicalized title tree (None before)
    plangT       \* the client's lexicalized programming-language tree

vars == <<call, result, authorsFrom, authorsT, titleT, plangT>>

(***************************************************************************)
(* Bounds of the model.                                                    *)
(***************************************************************************)
MaxItems == 4        \* longest list handed to gen_enumeration
MaxGivenNames == 3   \* longest list handed to gen_nested_given_names
MaxAuthors == 2      \* longest list of authors
MaxTitles == 2       \* longest list of book titles
MaxCount == 2        \* largest count (examples, exercises, numerus)
MaxPreps == 1        \* most prepositions inserted into one language tree

(***************************************************************************)
(* Python values.  A string that the code takes apart (a name, a title,    *)
(* an sql array) is a sequence of one-character strings; a string that is  *)
(* only compared or stored is a TLA+ string.                               *)
(***************************************************************************)
None == [kind |-> "none"]
EmptyList == [kind |-> "list"]                     \* the value []
Failure(e) == [kind |-> "fail", err |-> e]
IsFailure(v) == v.kind = "fail"
IsDiamond(v) == v.kind = "diamond"
AssertionError == Failure("AssertionError")
KeyError == Failure("KeyError")

RECURSIVE JoinChars(_)
JoinChars(cs) == IF cs = <<>> THEN "" ELSE Head(cs) \o JoinChars(Tail(cs))

\* str.split(): the maximal runs of non-blank characters, in order
RECURSIVE SplitAcc(_, _, _)
SplitAcc(cs, cur, acc) ==
    IF cs = <<>>
    THEN IF cur = "" THEN acc ELSE Append(acc, cur)
    ELSE IF Head(cs) = " "
         THEN SplitAcc(Tail(cs), "", IF cur = "" THEN acc ELSE Append(acc, cur))
         ELSE SplitAcc(Tail(cs), cur \o Head(cs), acc)

Split(cs) == SplitAcc(cs, "", <<>>)

\* str.replace(a, b) for one-character a and b
Replace(cs, a, b) == [i \in 1..Len(cs) |-> IF cs[i] = a THEN b ELSE cs[i]]

(***************************************************************************)
(* The tree node.  A Diamond is a feature dictionary: its mode, its nom    *)
(* (category), its prop (lexical anchor) and its sub-diamonds, each stored *)
(* under the key "<idx>__<label>", here the pair idx, label.  kids is kept *)
(* in key order.                                                           *)
(***************************************************************************)
Kid(i, l, d) == [idx |-> i, label |-> l, node |-> d]

create_diamond(mode, nom, prop, nested_diamonds_list) ==
    [kind |-> "diamond", mode |-> mode, nom |-> nom, prop |-> prop,
     kids |-> [i \in 1..Len(nested_diamonds_list) |->
                  Kid(i - 1, nested_diamonds_list[i].mode,
                      nested_diamonds_list[i])]]

change_mode(d, mode) == [d EXCEPT !.mode = mode]

Children(d) == [i \in 1..Len(d.kids) |-> d.kids[i].node]

HasKey(d, i, l) == \E k \in 1..Len(d.kids) :
                       d.kids[k].idx = i /\ d.kids[k].label = l

GetKey(d, i, l) ==
    LET k == CHOOSE k \in 1..Len(d.kids) :
                 d.kids[k].idx = i /\ d.kids[k].label = l
    IN d.kids[k].node

last_diamond_index(d) ==
    IF d.kids = <<>> THEN -1 ELSE d.kids[Len(d.kids)].idx

\* append a sub-diamond after the last one, optionally under another mode
append_subdiamond(d, sub, mode) ==
    LET m == IF mode = "" THEN sub.mode ELSE mode
        s == change_mode(sub, m)
    IN [d EXCEPT !.kids = Append(@, Kid(last_diamond_index(d) + 1, m, s))]

\* insert a sub-diamond before position index; the later ones move up by one
insert_subdiamond(d, index, sub) ==
    LET before == SelectSeq(d.kids, LAMBDA k : k.idx < index)
        after == SelectSeq(d.kids, LAMBDA k : k.idx >= index)
        moved == [i \in 1..Len(after) |-> [after[i] EXCEPT !.idx = @ + 1]]
    IN [d EXCEPT !.kids = before \o <<Kid(index, sub.mode, sub)>> \o moved]

prepend_subdiamond(d, sub) == insert_subdiamond(d, 0, sub)

\* the number of sub-diamonds among the first i that carry the mode
RECURSIVE CountMode(_, _, _)
CountMode(kids, i, mode) ==
    IF i = 0 THEN 0
    ELSE CountMode(kids, i - 1, mode)
         + (IF kids[i].node.mode = mode THEN 1 ELSE 0)

\* every sub-diamond (at any depth) whose mode is the given one gets a
\* running number appended to its mode and key: N, N -> N1, N2
RECURSIVE add_mode_suffix(_, _)
add_mode_suffix(d, mode) ==
    [d EXCEPT !.kids =
        [i \in 1..Len(d.kids) |->
            LET k == d.kids[i]
                sub == add_mode_suffix(k.node, mode)
            IN IF k.node.mode = mode
               THEN LET m == mode \o ToString(CountMode(d.kids, i, mode))
                    IN Kid(k.idx, m, change_mode(sub, m))
               ELSE Kid(k.idx, k.label, sub)]]

(***************************************************************************)
(* Atomic generators.                                                      *)
(***************************************************************************)
gen_art(article_type) == create_diamond("ART", "sem-obj", article_type, <<>>)

gen_gender(genus) == create_diamond("GEN", "", genus, <<>>)

\* gen_num called with a string
gen_num(numerus) ==
    IF numerus \in {"sing", "plur"}
    THEN create_diamond("NUM", "", numerus, <<>>)
    ELSE AssertionError

\* gen_num with a count of zero taken for the singular
gen_num_count_zero_sing(numerus) ==
    IF numerus <= 1 THEN gen_num("sing") ELSE gen_num("plur")

\* gen_num called with an integer
gen_num_count(numerus) ==
    IF ~(numerus > 0) THEN AssertionError
    ELSE IF numerus = 1 THEN gen_num("sing")
    ELSE gen_num("plur")

gen_mod(modifier, modifier_type) ==
    create_diamond("MOD", modifier_type, modifier, <<>>)

gen_pronoun(person, pronoun_type, gender, numerus, mode) ==
    IF person \notin {1, 2, 3} THEN AssertionError
    ELSE IF gender \notin {"masc", "fem", "neut"} THEN AssertionError
    ELSE IF numerus \notin {"sing", "plur"} THEN AssertionError
    ELSE LET person_prop_str == ToString(person) \o "te"
             pers == create_diamond("PERS", "", person_prop_str, <<>>)
             pro == create_diamond("PRO", "", pronoun_type, <<>>)
             gen == gen_gender(gender)
             num == gen_num(numerus)
         IN create_diamond(mode, "sem-obj", "", <<pers, pro, gen, num>>)

\* gen_personal_pronoun that takes every count for the singular
gen_personal_pronoun_sing(count, gender, person, mode) ==
    LET g == IF count > 1 \/ gender = "" THEN "fem" ELSE gender
    IN gen_pronoun(person, "perspro", g, "sing", mode)

gen_personal_pronoun(count, gender, person, mode) ==
    LET g == IF count > 1 \/ gender = "" THEN "fem" ELSE gender
        numerus == IF count = 1 THEN "sing" ELSE "plur"
    IN gen_pronoun(person, "perspro", g, numerus, mode)

gen_prep(preposition, preposition_type) ==
    create_diamond("PRAEP", preposition_type, preposition, <<>>)

gen_tempus(tense) == create_diamond("TEMP:tempus", "", tense, <<>>)

gen_komp(modality) ==
    IF modality \in {"pos", "komp", "super"}
    THEN create_diamond("KOMP", "", modality, <<>>)
    ELSE AssertionError

(***************************************************************************)
(* Structural combinators.                                                 *)
(***************************************************************************)
AllButLast(s) == SubSeq(s, 1, Len(s) - 1)
Last(s) == s[Len(s)]

RECURSIVE gen_komma_enumeration(_, _)
gen_komma_enumeration(diamonds_list, mode) ==
    IF Len(diamonds_list) = 0 THEN EmptyList
    ELSE IF Len(diamonds_list) = 1 THEN diamonds_list[1]
    ELSE IF Len(diamonds_list) = 2
    THEN create_diamond(mode, "konjunktion", "komma", diamonds_list)
    ELSE LET nested_komma_enum ==
                 gen_komma_enumeration(AllButLast(diamonds_list), mode)
         IN create_diamond(mode, "konjunktion", "komma",
                           <<nested_komma_enum, Last(diamonds_list)>>)

\* gen_enumeration that nests the last items instead of the first ones
gen_enumeration_right(diamonds_list, mode) ==
    IF Len(diamonds_list) = 0 THEN EmptyList
    ELSE IF Len(diamonds_list) = 1 THEN diamonds_list[1]
    ELSE IF Len(diamonds_list) = 2
    THEN create_diamond(mode, "konjunktion", "und", diamonds_list)
    ELSE LET nested_komma_enum ==
                 gen_komma_enumeration(Tail(diamonds_list), mode)
         IN create_diamond(mode, "konjunktion", "und",
                           <<Head(diamonds_list), nested_komma_enum>>)

\* gen_enumeration whose slice of the first items is one item short
gen_enumeration_short(diamonds_list, mode) ==
    IF Len(diamonds_list) = 0 THEN EmptyList
    ELSE IF Len(diamonds_list) = 1 THEN diamonds_list[1]
    ELSE IF Len(diamonds_list) = 2
    THEN create_diamond(mode, "konjunktion", "und", diamonds_list)
    ELSE LET nested_komma_enum ==
                 gen_komma_enumeration(
                     SubSeq(diamonds_list, 1, Len(diamonds_list) - 2), mode)
         IN create_diamond(mode, "konjunktion", "und",
                           <<nested_komma_enum, Last(diamonds_list)>>)

\* gen_enumeration that does not hand its mode to the comma chain
gen_enumeration_plain_chain(diamonds_list, mode) ==
    IF Len(diamonds_list) = 0 THEN EmptyList
    ELSE IF Len(diamonds_list) = 1 THEN diamonds_list[1]
    ELSE IF Len(diamonds_list) = 2
    THEN create_diamond(mode, "konjunktion", "und", diamonds_list)
    ELSE LET nested_komma_enum ==
                 gen_komma_enumeration(AllButLast(diamonds_list), "")
         IN create_diamond(mode, "konjunktion", "und",
                           <<nested_komma_enum, Last(diamonds_list)>>)

gen_enumeration(diamonds_list, mode) ==
    IF Len(diamonds_list) = 0 THEN EmptyList
    ELSE IF Len(diamonds_list) = 1 THEN diamonds_list[1]
    ELSE IF Len(diamonds_list) = 2
    THEN create_diamond(mode, "konjunktion", "und", diamonds_list)
    ELSE LET nested_komma_enum ==
                 gen_komma_enumeration(AllButLast(diamonds_list), mode)
         IN create_diamond(mode, "konjunktion", "und",
                           <<nested_komma_enum, Last(diamonds_list)>>)

\* the given names and the last name of a name string; a name without any
\* non-blank character has no last component
split_name(name) ==
    LET name_components == Split(name)
    IN IF name_components = <<>> THEN Failure("IndexError")
       ELSE [kind |-> "pair", given_names |-> AllButLast(name_components),
             last_name |-> Last(name_components)]

\* gen_nested_given_names that puts the first given name outermost
RECURSIVE gen_nested_given_names_first(_)
gen_nested_given_names_first(given_names) ==
    IF given_names # <<>>
    THEN LET nested_diamond == gen_nested_given_names_first(Tail(given_names))
         IN IF nested_diamond = EmptyList
            THEN create_diamond("N1", "vorname", Head(given_names), <<>>)
            ELSE create_diamond("N1", "vorname", Head(given_names),
                                <<nested_diamond>>)
    ELSE EmptyList

RECURSIVE gen_nested_given_names(_)
gen_nested_given_names(given_names) ==
    IF given_names # <<>>
    THEN LET preceding_names == AllButLast(given_names)
             last_given_name == Last(given_names)
             nested_diamond == gen_nested_given_names(preceding_names)
         IN IF nested_diamond = EmptyList
            THEN create_diamond("N1", "vorname", last_given_name, <<>>)
            ELSE create_diamond("N1", "vorname", last_given_name,
                                <<nested_diamond>>)
    ELSE EmptyList

(***************************************************************************)
(* Generators of entity phrases.  The strings of the grammar are written   *)
(* in ASCII: "ae", "oe", "ue" stand for the umlauts of the source.         *)
(***************************************************************************)
gen_title(book_title) ==
    LET title == JoinChars(Replace(book_title, " ", "_"))
        opening_bracket ==
            create_diamond("99", "anfuehrungoeffnen", "anfoeffn", <<>>)
        closing_bracket ==
            create_diamond("66", "anfuehrungschliessen", "anfschl", <<>>)
    IN create_diamond("NP", "buchtitel", title,
                      <<opening_bracket, closing_bracket>>)

gen_abstract_title(number_of_books) ==
    LET num == gen_num_count(number_of_books)
        art == gen_art("def")
    IN IF IsFailure(num) THEN num
       ELSE create_diamond("", "artefaktum", "Buch", <<num, art>>)

gen_abstract_autor(num_of_authors) ==
    LET art == gen_art("def")
        gen == gen_gender("mask")
        num == gen_num_count(num_of_authors)
    IN IF IsFailure(num) THEN num
       ELSE create_diamond("", "bel-phys-koerper", "Autor", <<art, gen, num>>)

gen_lastname_only(name) ==
    LET parts == split_name(name)
    IN IF IsFailure(parts) THEN parts
       ELSE create_diamond("NP", "nachname", parts.last_name, <<>>)

gen_complete_name(name) ==
    LET parts == split_name(name)
    IN IF IsFailure(parts) THEN parts
       ELSE IF parts.given_names # <<>>
       THEN LET given_names_diamond ==
                    gen_nested_given_names(parts.given_names)
            IN create_diamond("NP", "nachname", parts.last_name,
                              <<given_names_diamond>>)
       ELSE create_diamond("NP", "nachname", parts.last_name, <<>>)

\* the items of an sql string array: "[Ada][Scheme]" -> Ada, Scheme
RECURSIVE SqlItems(_, _, _, _)
SqlItems(cs, inside, cur, acc) ==
    IF cs = <<>> THEN acc
    ELSE IF Head(cs) = "[" THEN SqlItems(Tail(cs), TRUE, "", acc)
    ELSE IF Head(cs) = "]"
         THEN SqlItems(Tail(cs), FALSE, "",
                       IF inside THEN Append(acc, cur) ELSE acc)
    ELSE SqlItems(Tail(cs), inside,
                  IF inside THEN cur \o Head(cs) ELSE cur, acc)

sql_array_to_list(sql_array) == SqlItems(sql_array, FALSE, "", <<>>)

\* the first failure among the values of a sequence, or None
FirstFailure(seq) ==
    IF \E i \in 1..Len(seq) : IsFailure(seq[i])
    THEN seq[CHOOSE i \in 1..Len(seq) :
                 IsFailure(seq[i]) /\ \A j \in 1..(i - 1) : ~IsFailure(seq[j])]
    ELSE None

\* gen_plang whose number marker is always the singular
gen_plang_sing(plang, mode) ==
    IF plang = <<>> THEN AssertionError
    ELSE LET proglangs == sql_array_to_list(plang)
             proglang_diamonds ==
                 [i \in 1..Len(proglangs) |->
                     create_diamond("N", "sorte", proglangs[i],
                                    <<gen_num("sing")>>)]
             proglang_enum ==
                 add_mode_suffix(
                     change_mode(gen_enumeration(proglang_diamonds, "N"),
                                 "NOMERG"), "N")
         IN create_diamond(mode, "art", "Programmiersprache",
                           <<gen_num("sing"), gen_art("def"), proglang_enum>>)

gen_plang(plang, mode) ==
    IF plang = <<>> THEN AssertionError
    ELSE LET proglangs == sql_array_to_list(plang)
             num_of_proglangs == Len(proglangs)
             num == gen_num_count(num_of_proglangs)
             art == gen_art("def")
             proglang_diamonds ==
                 [i \in 1..Len(proglangs) |->
                     create_diamond("N", "sorte", proglangs[i],
                                    <<gen_num("sing")>>)]
             proglang_enum ==
                 add_mode_suffix(
                     change_mode(gen_enumeration(proglang_diamonds, "N"),
                                 "NOMERG"), "N")
         IN IF IsFailure(num) THEN num
            ELSE create_diamond(mode, "art", "Programmiersprache",
                                <<num, art, proglang_enum>>)

\* the answer "sing" for every authors diamond
sing_or_plur_one(lexicalized_authors) == "sing"

\* does a lexicalized authors diamond describe one or more authors?
sing_or_plur(lexicalized_authors) ==
    IF lexicalized_authors.prop = "" THEN "KeyError"
    ELSE IF lexicalized_authors.prop = "und" THEN "plur"
    ELSE IF HasKey(lexicalized_authors, 2, "NUM")
         THEN GetKey(lexicalized_authors, 2, "NUM").prop
    ELSE "sing"

\* random.choice(seq), r being the random draw
random_choice(seq, r) == seq[(r % Len(seq)) + 1]

(***************************************************************************)
(* Entity lexicalizers.  A lexicalizer that changes a tree it was given    *)
(* returns, next to its value ret, the trees as they are after the call.   *)
(***************************************************************************)
lexicalize_authors(authors, realize) ==
    IF realize \notin {"abstract", "lastnames", "complete"}
    THEN AssertionError
    ELSE LET names ==
                 [i \in 1..Len(authors) |->
                     IF realize = "lastnames"
                     THEN gen_lastname_only(authors[i])
                     ELSE gen_complete_name(authors[i])]
             authors_diamond ==
                 IF realize = "abstract"
                 THEN gen_abstract_autor(Len(authors))
                 ELSE IF FirstFailure(names) # None THEN FirstFailure(names)
                 ELSE gen_enumeration(names, "NP")
         IN IF IsFailure(authors_diamond) THEN authors_diamond
            ELSE IF ~IsDiamond(authors_diamond)
            THEN Failure("AttributeError")
            ELSE add_mode_suffix(add_mode_suffix(authors_diamond, "NP"), "N")

\* the title diamond without the sub-diamonds stored under a key <idx>__ART
RemoveArticle(title_diamond) ==
    [title_diamond EXCEPT
        !.kids = SelectSeq(@, LAMBDA k : k.label # "ART")]

lexicalize_titles(book_titles, lexicalized_authors, realize, authors_realize, r1, r2) ==
    LET unchanged(v) == [ret |-> v, authors |-> lexicalized_authors]
        num_of_titles == Len(book_titles)
        real ==
            IF realize = "random"
            THEN IF authors_realize # "None"
                 THEN random_choice(<<"abstract", "complete">>, r1)
                 ELSE random_choice(<<"abstract", "complete", "pronoun">>, r1)
            ELSE realize
        realized_titles ==
            [i \in 1..Len(book_titles) |-> gen_title(book_titles[i])]
        titles_enum == gen_enumeration(realized_titles, "NP")
        title_diamond ==
            IF real = "abstract" THEN gen_abstract_title(num_of_titles)
            ELSE IF real = "pronoun"
            THEN IF lexicalized_authors # None THEN AssertionError
                 ELSE gen_personal_pronoun(num_of_titles, "neut", 3, "")
            ELSE IF ~IsDiamond(titles_enum) THEN Failure("AttributeError")
            ELSE add_mode_suffix(titles_enum, "NP")
        number == sing_or_plur(lexicalized_authors)
        auth_real ==
            IF authors_realize = "random"
            THEN IF number = "sing"
                 THEN random_choice(<<"possessive", "preposition">>, r2)
                 ELSE "preposition"
            ELSE authors_realize
        with_von ==
            prepend_subdiamond(lexicalized_authors,
                               gen_prep("von", "zugehoerigkeit"))
    IN IF realize \notin {"abstract", "complete", "pronoun", "random"}
       THEN unchanged(AssertionError)
       ELSE IF authors_realize \notin
                   {"None", "possessive", "preposition", "random"}
       THEN unchanged(AssertionError)
       ELSE IF IsFailure(title_diamond) THEN unchanged(title_diamond)
       ELSE IF lexicalized_authors = None THEN unchanged(title_diamond)
       ELSE IF authors_realize = "random" /\ number = "KeyError"
       THEN unchanged(KeyError)
       ELSE IF auth_real = "possessive"
       THEN IF number = "KeyError" THEN unchanged(KeyError)
            ELSE IF number # "sing" THEN unchanged(AssertionError)
            ELSE [ret |-> RemoveArticle(
                              append_subdiamond(title_diamond,
                                                lexicalized_authors, "ASS")),
                  authors |-> change_mode(lexicalized_authors, "ASS")]
       ELSE IF auth_real = "preposition"
       THEN [ret |-> append_subdiamond(title_diamond, with_von, "ATTRIB"),
             authors |-> change_mode(with_von, "ATTRIB")]
       ELSE unchanged(title_diamond)

lexicalize_plang(plang, lexicalized_titles, lexicalized_authors, realize) ==
    LET unchanged(v) == [ret |-> v, title |-> lexicalized_titles,
                         authors |-> lexicalized_authors]
        patiens == gen_plang(plang, "PATIENS")
        temp == gen_tempus("praes")
    IN IF ~(lexicalized_titles # None \/ lexicalized_authors # None
            \/ realize = "embedded")
       THEN unchanged(AssertionError)
       ELSE IF realize = "embedded" THEN unchanged(gen_plang(plang, "N"))
       ELSE IF realize = "complete"
       THEN IF lexicalized_titles # None
            THEN LET agens == change_mode(lexicalized_titles, "AGENS")
                 IN [ret |-> IF IsFailure(patiens) THEN patiens
                             ELSE create_diamond("", "handlung", "verwenden",
                                                 <<temp, agens, patiens>>),
                     title |-> agens, authors |-> lexicalized_authors]
            ELSE LET agens == change_mode(lexicalized_authors, "AGENS")
                 IN [ret |-> IF IsFailure(patiens) THEN patiens
                             ELSE create_diamond("", "handlung", "verwenden",
                                                 <<temp, agens, patiens>>),
                     title |-> lexicalized_titles, authors |-> agens]
       ELSE unchanged(None)

\* the modifier that tests the count against one
codeexamples_modifier_one(examples, lexicalized_plang) ==
    IF examples # 1 THEN gen_art("quantkein")
    ELSE IF lexicalized_plang # None
    THEN change_mode(insert_subdiamond(lexicalized_plang, 1,
                                       gen_prep("in", "zusammenhang")),
                     "ATTRIB")
    ELSE None

\* the modifier with the preposition in front of the language phrase
codeexamples_modifier_front(examples, lexicalized_plang) ==
    IF examples = 0 THEN gen_art("quantkein")
    ELSE IF lexicalized_plang # None
    THEN change_mode(insert_subdiamond(lexicalized_plang, 0,
                                       gen_prep("in", "zusammenhang")),
                     "ATTRIB")
    ELSE None

\* the modifier of the patient phrase: "keine", the language phrase with
\* the preposition "in" inserted, or none
codeexamples_modifier(examples, lexicalized_plang) ==
    IF examples = 0 THEN gen_art("quantkein")
    ELSE IF lexicalized_plang # None
    THEN LET preposition == gen_prep("in", "zusammenhang")
         IN change_mode(insert_subdiamond(lexicalized_plang, 1, preposition),
                        "ATTRIB")
    ELSE None

lexicalize_codeexamples(examples, lexicalized_title, lexicalized_plang, lexeme) ==
    IF lexeme \notin {"beinhalten", "enthalten"}
    THEN [ret |-> AssertionError, title |-> lexicalized_title,
          plang |-> lexicalized_plang]
    ELSE LET temp == gen_tempus("praes")
             agens == change_mode(lexicalized_title, "AGENS")
             modifier == codeexamples_modifier(examples, lexicalized_plang)
             plang == IF examples # 0 /\ lexicalized_plang # None
                      THEN modifier
                      ELSE lexicalized_plang
             patiens ==
                 IF modifier # None
                 THEN create_diamond("PATIENS", "abstraktum", "Code-Beispiel",
                                     <<gen_num("plur"), modifier>>)
                 ELSE create_diamond("PATIENS", "abstraktum", "Code-Beispiel",
                                     <<gen_num("plur")>>)
         IN [ret |-> create_diamond("", "durativ", lexeme,
                                    <<temp, agens, patiens>>),
             title |-> agens, plang |-> plang]

\* the patient phrase with the branches exchanged
exercises_patiens_swapped(exercises) ==
    IF exercises = 1
    THEN create_diamond("PATIENS", "abstraktum", "Uebung",
                        <<gen_num("plur"), gen_art("quantkein")>>)
    ELSE create_diamond("PATIENS", "abstraktum", "Uebung",
                        <<gen_num("plur")>>)

\* the patient phrase "Uebungen" / "keine Uebungen"
exercises_patiens(exercises) ==
    IF exercises = 1
    THEN create_diamond("PATIENS", "abstraktum", "Uebung",
                        <<gen_num("plur")>>)
    ELSE LET modifier == gen_art("quantkein")
         IN create_diamond("PATIENS", "abstraktum", "Uebung",
                           <<gen_num("plur"), modifier>>)

lexicalize_exercises(exercises, lexicalized_title, lexeme) ==
    IF lexeme \notin {"beinhalten", "enthalten"}
    THEN [ret |-> AssertionError, title |-> lexicalized_title]
    ELSE LET tempus == gen_tempus("praes")
             agens == change_mode(lexicalized_title, "AGENS")
             patiens == exercises_patiens(exercises)
         IN [ret |-> create_diamond("", "durativ", lexeme,
                                    <<tempus, agens, patiens>>),
             title |-> agens]

(***************************************************************************)
(* The inputs of the model.                                                *)
(***************************************************************************)
SeqsUpTo(S, lo, hi) == UNION {[1..n -> S] : n \in lo..hi}

AdaLovelace == <<"A", "d", "a", " ", "L", "o", "v", "e", "l", "a", "c", "e">>
CDManning == <<"C", ".", " ", "D", ".", " ", "M", "a", "n", "n", "i", "n", "g">>
MaxUnd == <<"M", "a", "x", " ", "u", "n", "d">>

\* the author lists: the names of AllAuthors, some left out, in that order
AllAuthors == <<AdaLovelace, CDManning, MaxUnd>>
AuthorNames == {AllAuthors[i] : i \in 1..Len(AllAuthors)}
PosIn(all, x) == CHOOSE i \in 1..Len(all) : all[i] = x
IsOrdered(all, s) ==
    \A i, j \in 1..Len(s) : i < j => PosIn(all, s[i]) < PosIn(all, s[j])
AuthorLists == {a \in SeqsUpTo(AuthorNames, 1, MaxAuthors) :
                   IsOrdered(AllAuthors, a)}
AuthorModes == {"abstract", "lastnames", "complete"}

AllTitles == <<<<"f", "o", "o">>,
               <<"O", "n", " ", "S", "y", "n", "t", "a", "x">>,
               <<"N", "L", "P", " ", "i", "n", " ", "L", "i", "s", "p">>>>
BookTitles == {AllTitles[i] : i \in 1..Len(AllTitles)}
TitleLists == {t \in SeqsUpTo(BookTitles, 1, MaxTitles) :
                  IsOrdered(AllTitles, t)}
TitleModes == {"abstract", "complete", "pronoun", "random"}
AuthorAttachModes == {"None", "possessive", "preposition", "random"}

AdaScheme == <<"[", "A", "d", "a", "]", "[", "S", "c", "h", "e", "m", "e", "]">>
PlangArrays == {<<"[", "A", "d", "a", "]">>, AdaScheme,
                <<"[", "C", "]", "[", "A", "d", "a", "]", "[", "L", "i", "s", "p", "]">>}

Counts == 0..MaxCount
Lexemes == {"beinhalten", "enthalten", "random"}

EnumItems == {create_diamond("NP", "nachname", "Kay", <<>>),
              create_diamond("NP", "nachname", "Manning", <<>>),
              create_diamond("N", "sorte", "Ada", <<gen_num("sing")>>)}
EnumModes == {"", "N", "NP"}
GivenNames == {"John", "E.", "D."}

\* the number of prepositions among the sub-diamonds of a tree
PrepCount(d) == Len(SelectSeq(d.kids, LAMBDA k : k.label = "PRAEP"))

(***************************************************************************)
(* The client of the lexicalizers: it lexicalizes the authors, then the    *)
(* title (with or without the authors), the programming languages, and     *)
(* hands the trees it holds to the clause lexicalizers.                    *)
(***************************************************************************)
Init ==
    /\ call = [op |-> "none"]
    /\ result = None
    /\ authorsFrom = None
    /\ authorsT = None
    /\ titleT = None
    /\ plangT = None

LexicalizeAuthors ==
    /\ authorsT = None
    /\ titleT = None
    /\ \E authors \in AuthorLists, realize \in AuthorModes :
         LET d == lexicalize_authors(authors, realize)
         IN /\ call' = [op |-> "lexicalize_authors", authors |-> authors,
                        realize |-> realize]
            /\ result' = d
            /\ IF IsFailure(d)
               THEN UNCHANGED <<authorsFrom, authorsT>>
               ELSE /\ authorsT' = d
                    /\ authorsFrom' = [kind |-> "authors", names |-> authors,
                                       realize |-> realize]
    /\ UNCHANGED <<titleT, plangT>>

\* the draws random.choice can make for an argument that may be "random"
Draws(arg, n) == IF arg = "random" THEN 0..(n - 1) ELSE {0}

LexicalizeTitlesWith(author_args) ==
    /\ titleT = None
    /\ \E book_titles \in TitleLists, realize \in TitleModes,
          authors_realize \in AuthorAttachModes,
          lexicalized_authors \in author_args :
       \E r1 \in Draws(realize, 3), r2 \in Draws(authors_realize, 2) :
         LET out == lexicalize_titles(book_titles, lexicalized_authors,
                                      realize, authors_realize, r1, r2)
         IN /\ call' = [op |-> "lexicalize_titles",
                        book_titles |-> book_titles, realize |-> realize,
                        authors_realize |-> authors_realize,
                        lexicalized_authors |-> lexicalized_authors]
            /\ result' = out.ret
            /\ titleT' = IF IsFailure(out.ret) THEN titleT ELSE out.ret
            /\ authorsT' = IF lexicalized_authors = None THEN authorsT
                           ELSE out.authors
    /\ UNCHANGED <<authorsFrom, plangT>>

\* the client attaches the authors it has lexicalized, or none
LexicalizeTitles == LexicalizeTitlesWith({None, authorsT})

\* the client that lexicalizes a title only
LexicalizeBareTitles == authorsT = None /\ LexicalizeTitlesWith({None})

LexicalizePlang ==
    /\ plangT = None
    /\ \E plang \in PlangArrays :
         LET out == lexicalize_plang(plang, None, None, "embedded")
         IN /\ call' = [op |-> "lexicalize_plang", plang |-> plang,
                        realize |-> "embedded"]
            /\ result' = out.ret
            /\ plangT' = IF IsFailure(out.ret) THEN plangT ELSE out.ret
    /\ UNCHANGED <<authorsFrom, authorsT, titleT>>

\* the tree the client passes as lexicalized_title: its title tree or,
\* while it has none, its authors tree
AgentSlots == IF titleT # None THEN {"title"}
              ELSE IF authorsT # None THEN {"authors"}
              ELSE {}

LexicalizeCodeexamples ==
    \E slot \in AgentSlots, examples \in Counts, lexeme \in Lexemes,
       lexicalized_plang \in {None, plangT} :
         LET lexicalized_title == IF slot = "title" THEN titleT ELSE authorsT
             out == lexicalize_codeexamples(examples, lexicalized_title,
                                            lexicalized_plang, lexeme)
         IN /\ lexicalized_plang # None => PrepCount(lexicalized_plang) < MaxPreps
            /\ call' = [op |-> "lexicalize_codeexamples",
                        examples |-> examples, slot |-> slot,
                        lexicalized_title |-> lexicalized_title,
                        lexicalized_plang |-> lexicalized_plang,
                        lexeme |-> lexeme]
            /\ result' = out.ret
            /\ titleT' = IF slot = "title" THEN out.title ELSE titleT
            /\ authorsT' = IF slot = "authors" THEN out.title ELSE authorsT
            /\ plangT' = IF lexicalized_plang = None THEN plangT
                         ELSE out.plang
            /\ UNCHANGED authorsFrom

LexicalizeExercises ==
    \E slot \in AgentSlots, exercises \in Counts, lexeme \in Lexemes :
         LET lexicalized_title == IF slot = "title" THEN titleT ELSE authorsT
             out == lexicalize_exercises(exercises, lexicalized_title, lexeme)
         IN /\ call' = [op |-> "lexicalize_exercises",
                        exercises |-> exercises, slot |-> slot,
                        lexicalized_title |-> lexicalized_title,
                        lexeme |-> lexeme]
            /\ result' = out.ret
            /\ titleT' = IF slot = "title" THEN out.title ELSE titleT
            /\ authorsT' = IF slot = "authors" THEN out.title ELSE authorsT
            /\ UNCHANGED <<authorsFrom, plangT>>

\* the client that builds the phrases for authors and titles
Next ==
    \/ LexicalizeAuthors
    \/ LexicalizeTitles

Spec == Init /\ [][Next]_vars

\* the client that builds clauses about a title or about the authors
NextClause ==
    \/ LexicalizeAuthors
    \/ LexicalizeBareTitles
    \/ LexicalizePlang
    \/ LexicalizeCodeexamples
    \/ LexicalizeExercises

SpecClause == Init /\ [][NextClause]_vars

(***************************************************************************)
(* The generators and combinators called on their own.                     *)
(***************************************************************************)
GenEnumeration ==
    /\ \E diamonds_list \in SeqsUpTo(EnumItems, 0, MaxItems),
          mode \in EnumModes :
         /\ call' = [op |-> "gen_enumeration",
                     diamonds_list |-> diamonds_list, mode |-> mode]
         /\ result' = gen_enumeration(diamonds_list, mode)
    /\ UNCHANGED <<authorsFrom, authorsT, titleT, plangT>>

GenNestedGivenNames ==
    /\ \E given_names \in SeqsUpTo(GivenNames, 0, MaxGivenNames) :
         /\ call' = [op |-> "gen_nested_given_names",
                     given_names |-> given_names]
         /\ result' = gen_nested_given_names(given_names)
    /\ UNCHANGED <<authorsFrom, authorsT, titleT, plangT>>

GenNum ==
    /\ \E numerus \in Counts :
         /\ call' = [op |-> "gen_num", count |-> numerus]
         /\ result' = gen_num_count(numerus)
    /\ UNCHANGED <<authorsFrom, authorsT, titleT, plangT>>

GenPersonalPronoun ==
    /\ \E count \in Counts, gender \in {"masc", "fem", "neut", ""},
          person \in {1, 2, 3} :
         /\ call' = [op |-> "gen_personal_pronoun", count |-> count,
                     gender |-> gender, person |-> person]
         /\ result' = gen_personal_pronoun(count, gender, person, "")
    /\ UNCHANGED <<authorsFrom, authorsT, titleT, plangT>>

NextGen ==
    \/ GenEnumeration
    \/ GenNestedGivenNames
    \/ GenNum
    \/ GenPersonalPronoun

SpecGen == Init /\ [][NextGen]_vars

(***************************************************************************)
(* Properties of the generators and combinators (SpecGen).                 *)
(***************************************************************************)
IsCoordination(t, mode, anchor) ==
    /\ IsDiamond(t)
    /\ t.mode = mode
    /\ t.nom = "konjunktion"
    /\ t.prop = anchor
    /\ Len(t.kids) = 2

\* t is the comma-coordination of the items, nested to the left
RECURSIVE IsCommaChain(_, _, _)
IsCommaChain(t, items, mode) ==
    IF Len(items) = 1 THEN t = items[1]
    ELSE /\ IsCoordination(t, mode, "komma")
         /\ Children(t)[2] = Last(items)
         /\ IsCommaChain(Children(t)[1], AllButLast(items), mode)

\* C1: gen_enumeration is size-correct: no item gives the empty list, one
\* item gives that item, two items give one "und" node over the two items in
\* order, and more than two give an "und" node over the left-nested comma
\* chain of all items but the last, and the last item.
EnumerationSizeCorrect ==
    call.op = "gen_enumeration" =>
        LET items == call.diamonds_list
            n == Len(items)
        IN /\ n = 0 => result = EmptyList
           /\ n = 1 => result = items[1]
           /\ n = 2 => /\ IsCoordination(result, call.mode, "und")
                       /\ Children(result) = items
           /\ n > 2 => /\ IsCoordination(result, call.mode, "und")
                       /\ IsCommaChain(Children(result)[1], AllButLast(items),
                                       call.mode)
                       /\ Children(result)[2] = Last(items)

EnumerationOfFour ==
    /\ call.op = "gen_enumeration"
    /\ Len(call.diamonds_list) = 4
    /\ IsDiamond(result)
    /\ Children(Children(result)[1])[2] = call.diamonds_list[3]

\* the item trees of an enumeration, read from left to right; only the
\* coordination nodes are descended into
RECURSIVE Flatten(_)
RECURSIVE FlattenAll(_)
Flatten(t) ==
    IF t.nom = "konjunktion" THEN FlattenAll(Children(t)) ELSE <<t>>
FlattenAll(ts) ==
    IF ts = <<>> THEN <<>> ELSE Flatten(Head(ts)) \o FlattenAll(Tail(ts))

\* C2: for a non-empty list, the items read out of the tree gen_enumeration
\* returns are the items of the list, in the order of the list.
EnumerationKeepsItems ==
    (call.op = "gen_enumeration" /\ Len(call.diamonds_list) >= 1) =>
        Flatten(result) = call.diamonds_list

EnumerationWithRepeatedItem ==
    /\ call.op = "gen_enumeration"
    /\ Len(call.diamonds_list) >= 3
    /\ call.diamonds_list[1] = call.diamonds_list[3]
    /\ call.diamonds_list[1] # call.diamonds_list[2]
    /\ Len(Flatten(result)) >= 3

\* the anchors of a chain of nodes, the outermost first
RECURSIVE ChainAnchors(_)
ChainAnchors(t) ==
    IF t.kids = <<>> THEN <<t.prop>>
    ELSE <<t.prop>> \o ChainAnchors(t.kids[1].node)

\* every node of the chain is a given-name node with at most one child
RECURSIVE IsGivenNameChain(_)
IsGivenNameChain(t) ==
    /\ IsDiamond(t)
    /\ t.nom = "vorname"
    /\ Len(t.kids) <= 1
    /\ t.kids # <<>> => IsGivenNameChain(t.kids[1].node)

\* C3: gen_nested_given_names gives the empty list for no given name, and
\* else a chain of given-name nodes as deep as there are given names, the
\* last given name outermost and the first one innermost.
GivenNamesNested ==
    call.op = "gen_nested_given_names" =>
        LET names == call.given_names
        IN IF names = <<>> THEN result = EmptyList
           ELSE /\ IsGivenNameChain(result)
                /\ Len(ChainAnchors(result)) = Len(names)
                /\ result.prop = Last(names)
                /\ Last(ChainAnchors(result)) = names[1]

GivenNamesOfThree ==
    /\ call.op = "gen_nested_given_names"
    /\ Len(call.given_names) = 3
    /\ call.given_names[1] # call.given_names[3]
    /\ IsDiamond(result)

\* the number category of a number node or of a pronoun
NumberOf(t) ==
    IF t.mode = "NUM" THEN t.prop
    ELSE LET nums == SelectSeq(t.kids, LAMBDA k : k.label = "NUM")
         IN IF nums = <<>> THEN "none" ELSE nums[1].node.prop

CountCall == call.op \in {"gen_num", "gen_personal_pronoun"}

\* C10 as stated: gen_num and gen_personal_pronoun never fail, give the
\* singular for every count <= 1 (0 included) and the plural for every
\* count > 1.
CountsNormalizedFromZero ==
    CountCall =>
        /\ ~IsFailure(result)
        /\ call.count <= 1 => NumberOf(result) = "sing"
        /\ call.count > 1 => NumberOf(result) = "plur"

\* C10 amended: both give the singular for the count 1 and the plural for
\* every count > 1; for the count 0 gen_num fails its precondition and
\* gen_personal_pronoun gives the plural.
CountsNormalizedFromOne ==
    CountCall =>
        /\ call.count = 1 => ~IsFailure(result) /\ NumberOf(result) = "sing"
        /\ call.count > 1 => ~IsFailure(result) /\ NumberOf(result) = "plur"
        /\ (call.count = 0 /\ call.op = "gen_num") => result = AssertionError
        /\ (call.count = 0 /\ call.op = "gen_personal_pronoun") =>
               ~IsFailure(result) /\ NumberOf(result) = "plur"

GenNumOfZeroFails ==
    /\ call.op = "gen_num"
    /\ call.count = 0
    /\ result = AssertionError

(***************************************************************************)
(* Properties of the title lexicalizer (Spec).                             *)
(***************************************************************************)
HasArticle(t) == \E i \in 1..Len(t.kids) : t.kids[i].label = "ART"

\* the tree has the given tree, whatever its mode now, as a sub-diamond
HasChildTree(t, sub) ==
    \E i \in 1..Len(t.kids) : change_mode(t.kids[i].node, sub.mode) = sub

PossessiveCall ==
    /\ call.op = "lexicalize_titles"
    /\ call.authors_realize = "possessive"
    /\ call.lexicalized_authors # None
    /\ call.realize # "pronoun"

\* C4: a possessive title fails its precondition when the authors tree was
\* lexicalized from more than one author; from exactly one author, in any
\* author mode and for any name, it succeeds, and the title returned has no
\* article and has the authors tree as a sub-diamond.
PossessiveByAuthorCount ==
    PossessiveCall =>
        IF Len(authorsFrom.names) > 1 THEN result = AssertionError
        ELSE /\ IsDiamond(result)
             /\ ~HasArticle(result)
             /\ HasChildTree(result, call.lexicalized_authors)

\* C5: a pronoun title with an authors tree fails its precondition whatever
\* authors_realize is; without one it is a personal pronoun of the third
\* person, singular for one title and plural for more.
PronounTitle ==
    (call.op = "lexicalize_titles" /\ call.realize = "pronoun") =>
        IF call.lexicalized_authors # None THEN result = AssertionError
        ELSE /\ IsDiamond(result)
             /\ HasKey(result, 0, "PERS")
             /\ GetKey(result, 0, "PERS").prop = "3te"
             /\ HasKey(result, 1, "PRO")
             /\ GetKey(result, 1, "PRO").prop = "perspro"
             /\ Len(call.book_titles) = 1 => NumberOf(result) = "sing"
             /\ Len(call.book_titles) > 1 => NumberOf(result) = "plur"

PronounTitleWithAuthorsRejected ==
    /\ call.op = "lexicalize_titles"
    /\ call.realize = "pronoun"
    /\ call.authors_realize = "preposition"
    /\ call.lexicalized_authors # None
    /\ result = AssertionError

(***************************************************************************)
(* Properties of the clause lexicalizers (SpecClause).                     *)
(***************************************************************************)
\* some node of the tree is the article of the given type
RECURSIVE ContainsArticle(_, _)
ContainsArticle(t, article_type) ==
    \/ t.mode = "ART" /\ t.prop = article_type
    \/ \E i \in 1..Len(t.kids) : ContainsArticle(t.kids[i].node, article_type)

\* the sub-diamond stored under the first key with the label
ChildLabelled(t, l) ==
    SelectSeq(t.kids, LAMBDA k : k.label = l)[1].node

HasChildLabelled(t, l) == \E i \in 1..Len(t.kids) : t.kids[i].label = l

\* C6: the patient phrase of lexicalize_codeexamples contains the article
\* "quantkein" exactly if the count is zero, with and without a language
\* argument.
CodeexamplesQuantifier ==
    (call.op = "lexicalize_codeexamples" /\ IsDiamond(result)) =>
        (ContainsArticle(ChildLabelled(result, "PATIENS"), "quantkein")
            <=> call.examples = 0)

CodeexamplesInLanguage ==
    /\ call.op = "lexicalize_codeexamples"
    /\ call.examples = 2
    /\ call.lexicalized_plang # None
    /\ IsDiamond(result)
    /\ HasChildLabelled(ChildLabelled(result, "PATIENS"), "ATTRIB")

\* C7: the patient phrase of lexicalize_exercises contains the article
\* "quantkein" exactly if the count is zero.
ExercisesQuantifier ==
    (call.op = "lexicalize_exercises" /\ IsDiamond(result)) =>
        (ContainsArticle(ChildLabelled(result, "PATIENS"), "quantkein")
            <=> call.exercises = 0)

AdaLovelaceExercises ==
    /\ call.op = "lexicalize_exercises"
    /\ call.exercises = 0
    /\ call.lexeme = "enthalten"
    /\ call.slot = "authors"
    /\ authorsFrom # None
    /\ authorsFrom.names = <<AdaLovelace>>
    /\ authorsFrom.realize = "lastnames"

AdaSchemeEmbedded ==
    /\ call.op = "lexicalize_plang"
    /\ call.plang = AdaScheme
    /\ call.realize = "embedded"

\* the tree is the phrase for Ada and Scheme: a plural number marker and one
\* coordination node with the anchor over the leaves Ada and Scheme
IsAdaSchemePhrase(t, anchor) ==
    /\ IsDiamond(t)
    /\ NumberOf(t) = "plur"
    /\ HasChildLabelled(t, "NOMERG")
    /\ LET enum == ChildLabelled(t, "NOMERG")
       IN /\ enum.nom = "konjunktion"
          /\ enum.prop = anchor
          /\ Len(enum.kids) = 2
          /\ enum.kids[1].node.prop = "Ada"
          /\ enum.kids[2].node.prop = "Scheme"
          /\ \A i \in 1..2 : /\ enum.kids[i].node.nom = "sorte"
                             /\ enum.kids[i].node.nom # "konjunktion"

\* C9 as stated: Ada and Scheme in "embedded" mode give a plural noun phrase
\* whose two language leaves are, in order, the children of one binary
\* conjunction node with the anchor "and".
AdaSchemeJoinedByAnd ==
    AdaSchemeEmbedded => IsAdaSchemePhrase(result, "and")

\* C9 amended: the anchor of the conjunction node is "und".
AdaSchemeJoinedByUnd ==
    AdaSchemeEmbedded => IsAdaSchemePhrase(result, "und")

AdaSchemePhrase ==
    /\ AdaSchemeEmbedded
    /\ IsDiamond(result)
    /\ plangT = result

(***************************************************************************)
(* The other entity lexicalizers: keywords, pages, language, target.       *)
(***************************************************************************)
gen_abstract_keywords(num_of_keywords) ==
    LET num == gen_num_count(num_of_keywords)
        art == gen_art("def")
    IN IF IsFailure(num) THEN num
       ELSE create_diamond("", "art", "Thema", <<num, art>>)

gen_keyword(keyword, mode) ==
    LET fixed_keyword == JoinChars(Replace(keyword, " ", "_"))
        num == gen_num("sing")
    IN create_diamond(mode, "sorte", fixed_keyword, <<num>>)

gen_keywords(keywords, mode) ==
    LET num_of_keywords == Len(keywords)
        keyword_description == gen_abstract_keywords(num_of_keywords)
        keyword_diamonds ==
            [i \in 1..Len(keywords) |-> gen_keyword(keywords[i], mode)]
        result_diamond ==
            IF Len(keywords) = 1 THEN gen_keyword(keywords[1], mode)
            ELSE gen_enumeration(keyword_diamonds, mode)
    IN IF IsFailure(keyword_description) THEN keyword_description
       ELSE add_mode_suffix(
                append_subdiamond(keyword_description, result_diamond,
                                  "NOMERG"), mode)

\* the clause of lexicalize_keywords for a lexeme; no clause (None) for a
\* lexeme none of the branches names
keywords_clause(lexeme, temp, agens, patiens) ==
    IF lexeme \in {"behandeln", "beschreiben"}
    THEN create_diamond("", "handlung", lexeme, <<temp, agens, patiens>>)
    ELSE IF lexeme = "eingehen"
    THEN LET preposition == gen_prep("auf", "zusammenhang")
             aux == create_diamond("AUX", "partverbstamm", "ein-gehen",
                        <<temp, agens,
                          insert_subdiamond(patiens, 1, preposition)>>)
         IN create_diamond("", "infinitum", "ein-X-trans", <<aux>>)
    ELSE IF lexeme = "aufgreifen"
    THEN LET aux == create_diamond("AUX", "partverbstamm", "auf-greifen",
                                   <<temp, agens, patiens>>)
         IN create_diamond("", "infinitum", "auf-X-trans", <<aux>>)
    ELSE None

\* the agent that is taken from the authors first
keywords_agens_authors_first(lexicalized_title, lexicalized_authors) ==
    IF lexicalized_authors # None THEN "authors" ELSE "title"

\* the argument lexicalize_keywords takes for the agent of its clause
keywords_agens(lexicalized_title, lexicalized_authors) ==
    IF lexicalized_title # None THEN "title" ELSE "authors"

lexicalize_keywords(keywords, lexicalized_title, lexicalized_authors, realize, lexeme) ==
    LET unchanged(v) == [ret |-> v, title |-> lexicalized_title,
                         authors |-> lexicalized_authors]
        num_of_keywords == Len(keywords)
        built == IF realize = "abstract"
                 THEN gen_abstract_keywords(num_of_keywords)
                 ELSE gen_keywords(keywords, "N")
        patiens == change_mode(built, "PATIENS")
        temp == gen_tempus("praes")
    IN IF realize \notin {"abstract", "complete"} THEN unchanged(AssertionError)
       ELSE IF IsFailure(built) THEN unchanged(built)
       ELSE IF lexicalized_authors = None /\ lexicalized_title = None
       THEN unchanged(AssertionError)
       ELSE IF keywords_agens(lexicalized_title, lexicalized_authors) = "title"
       THEN LET agens == change_mode(lexicalized_title, "AGENS")
            IN [ret |-> keywords_clause(lexeme, temp, agens, patiens),
                title |-> agens, authors |-> lexicalized_authors]
       ELSE LET agens == change_mode(lexicalized_authors, "AGENS")
            IN [ret |-> keywords_clause(lexeme, temp, agens, patiens),
                title |-> lexicalized_title, authors |-> agens]

\* the lexeme that is drawn whatever lexeme the caller names
pages_lexeme_drawn(lexeme, r) ==
    random_choice(<<"umfang", "umfassen", "laenge">>, r)

\* the lexeme lexicalize_pages realizes: the caller's, or one it draws
pages_lexeme(lexeme, r) ==
    IF lexeme = "random"
    THEN random_choice(<<"umfang", "umfassen", "laenge">>, r)
    ELSE lexeme

lexicalize_pages(pages, lexicalized_title, lexeme, r) ==
    LET tempus == gen_tempus("praes")
        title == change_mode(lexicalized_title, "AGENS")
        pages_num == gen_num("plur")
        pages_mod == gen_mod(ToString(pages), "kardinal")
        pages_nom == "artefaktum"
        pages_prop == "Seite"
        lex == pages_lexeme(lexeme, r)
    IN IF lex = "umfang"
       THEN LET preposition == gen_prep("von", "zugehoerigkeit")
                attrib == create_diamond("ATTRIB", pages_nom, pages_prop,
                              <<pages_num, preposition, pages_mod>>)
                patiens_num == gen_num("sing")
                art == gen_art("indef")
                patiens == create_diamond("PATIENS", "abstraktum", "Umfang",
                               <<patiens_num, art, attrib>>)
            IN [ret |-> create_diamond("", "durativ", "haben",
                                       <<tempus, title, patiens>>),
                title |-> title]
       ELSE IF lex = "umfassen"
       THEN LET patiens == create_diamond("PATIENS", pages_nom, pages_prop,
                                          <<pages_num, pages_mod>>)
            IN [ret |-> create_diamond("", "handlung", "umfassen",
                                       <<tempus, title, patiens>>),
                title |-> title]
       ELSE IF lex = "laenge"
       THEN LET subj == change_mode(title, "SUBJ")
                komp_mod == create_diamond("MOD", "eigenschaft", "lang",
                                           <<gen_komp("pos")>>)
                prkompl == create_diamond("PRKOMPL", pages_nom, pages_prop,
                               <<pages_num, pages_mod, komp_mod>>)
            IN [ret |-> create_diamond("", "praedikation", "sein-kop",
                                       <<tempus, subj, prkompl>>),
                title |-> subj]
       ELSE [ret |-> None, title |-> title]

\* the dictionary languages of lexicalize_language
languages == [German |-> <<"D", "e", "u", "t", "s", "c", "h">>,
              English |-> <<"E", "n", "g", "l", "i", "s", "c", "h">>]

\* str.lower() on the letters that occur
Lower(cs) ==
    [i \in 1..Len(cs) |-> IF cs[i] = "D" THEN "d"
                          ELSE IF cs[i] = "E" THEN "e"
                          ELSE cs[i]]

\* the preposition "in" for both forms
language_prep_in(realize) == gen_prep("in", "zusammenhang")

\* the preposition of the predicative complement of lexicalize_language
language_prep(realize) ==
    IF realize = "noun" THEN gen_prep("auf", "zusammenhang")
    ELSE gen_prep("in", "zusammenhang")

lexicalize_language(language, lexicalized_title, realize) ==
    IF realize \notin {"noun", "adjective"}
    THEN [ret |-> AssertionError, title |-> lexicalized_title]
    ELSE LET tempus == gen_tempus("praes")
             subj == change_mode(lexicalized_title, "SUBJ")
             lang_num == gen_num("sing")
             prkompl ==
                 IF realize = "noun"
                 THEN LET noun_prep == language_prep(realize)
                          language_str == JoinChars(languages[language])
                      IN create_diamond("PRKOMPL", "abstraktum", language_str,
                                        <<lang_num, noun_prep>>)
                 ELSE LET adjective_prep == language_prep(realize)
                          language_str ==
                              JoinChars(Lower(languages[language]))
                          language_mod ==
                              append_subdiamond(
                                  gen_mod(language_str, "eigenschaft"),
                                  gen_komp("pos"), "")
                      IN create_diamond("PRKOMPL", "sorte", "Sprache",
                             <<lang_num, adjective_prep, language_mod>>)
         IN IF language \notin DOMAIN languages
            THEN [ret |-> KeyError, title |-> subj]
            ELSE [ret |-> create_diamond("", "praedikation", "sein-kop",
                                         <<tempus, subj, prkompl>>),
                  title |-> subj]

\* the dictionary targets of lexicalize_target
targets == <<"Anfaenger", "Einsteiger", "Fortgeschritten", "Experte">>

lexicalize_target(target, lexicalized_title) ==
    LET tempus == gen_tempus("praes")
        agens == change_mode(lexicalized_title, "AGENS")
        reflexive_pronoun == gen_pronoun(3, "reflpro", "neut", "sing", "PRO")
        target_num == gen_num("plur")
        target_prep == gen_prep("an", "gerichtetebez")
        patiens0 == create_diamond("PATIENS", "experte", targets[target + 1],
                                   <<target_num, target_prep>>)
        attrib == create_diamond("ATTRIB", "abstraktum", "Grundkenntnis",
                      <<gen_num("plur"), gen_prep("mit", "zugehoerigkeit")>>)
        patiens == IF target = 1 THEN append_subdiamond(patiens0, attrib, "")
                   ELSE patiens0
    IN IF target \notin 0..3 THEN [ret |-> KeyError, title |-> agens]
       ELSE [ret |-> create_diamond("", "handlung", "s.richten_an",
                         <<tempus, agens, reflexive_pronoun, patiens>>),
             title |-> agens]

\* the clause of the year with the title under the label it came with
lexicalize_year_unlabelled(year, lexicalized_title) ==
    LET tempus == gen_tempus("imperf")
        adv == create_diamond("ADV", "modus", ToString(year), <<>>)
        agens == lexicalized_title
        aux == create_diamond("AUX", "sein", "sein", <<tempus, adv, agens>>)
    IN [ret |-> create_diamond("", "inchoativ", "erscheinen", <<aux>>),
        title |-> agens]

lexicalize_year(year, lexicalized_title) ==
    LET tempus == gen_tempus("imperf")
        adv == create_diamond("ADV", "modus", ToString(year), <<>>)
        agens == change_mode(lexicalized_title, "AGENS")
        aux == create_diamond("AUX", "sein", "sein", <<tempus, adv, agens>>)
    IN [ret |-> create_diamond("", "inchoativ", "erscheinen", <<aux>>),
        title |-> agens]

(***************************************************************************)
(* A client that calls the atomic generators of the closed grammatical     *)
(* enumerations with values inside and outside them.                       *)
(***************************************************************************)
Tenses == {"praes", "imperf"}
Genders == {"masc", "fem", "neut"}
ArticleTypes == {"def", "indef"}
Degrees == {"pos", "komp", "super"}
Numbers == {"sing", "plur"}
Persons == {1, 2, 3}

TenseValues == Tenses \cup {"futur", ""}
GenderValues == Genders \cup {"mask", "utrum"}
ArticleValues == ArticleTypes \cup {"neg", ""}
DegreeValues == Degrees \cup {"elativ", ""}
NumberValues == Numbers \cup {"dual", ""}
PersonValues == 0..4

GenTempus ==
    /\ \E tense \in TenseValues :
         /\ call' = [op |-> "gen_tempus", value |-> tense]
         /\ result' = gen_tempus(tense)
    /\ UNCHANGED <<authorsFrom, authorsT, titleT, plangT>>

GenGender ==
    /\ \E genus \in GenderValues :
         /\ call' = [op |-> "gen_gender", value |-> genus]
         /\ result' = gen_gender(genus)
    /\ UNCHANGED <<authorsFrom, authorsT, titleT, plangT>>

GenArt ==
    /\ \E article_type \in ArticleValues :
         /\ call' = [op |-> "gen_art", value |-> article_type]
         /\ result' = gen_art(article_type)
    /\ UNCHANGED <<authorsFrom, authorsT, titleT, plangT>>

GenKomp ==
    /\ \E modality \in DegreeValues :
         /\ call' = [op |-> "gen_komp", value |-> modality]
         /\ result' = gen_komp(modality)
    /\ UNCHANGED <<authorsFrom, authorsT, titleT, plangT>>

GenNumerus ==
    /\ \E numerus \in NumberValues :
         /\ call' = [op |-> "gen_num", value |-> numerus]
         /\ result' = gen_num(numerus)
    /\ UNCHANGED <<authorsFrom, authorsT, titleT, plangT>>

GenPronoun ==
    /\ \E person \in PersonValues, pronoun_type \in {"perspro", "reflpro"},
          gender \in GenderValues, numerus \in NumberValues :
         /\ call' = [op |-> "gen_pronoun", person |-> person,
                     pronoun_type |-> pronoun_type, gender |-> gender,
                     numerus |-> numerus]
         /\ result' = gen_pronoun(person, pronoun_type, gender, numerus, "")
    /\ UNCHANGED <<authorsFrom, authorsT, titleT, plangT>>

NextAtom ==
    \/ GenTempus
    \/ GenGender
    \/ GenArt
    \/ GenKomp
    \/ GenNumerus
    \/ GenPronoun

SpecAtom == Init /\ [][NextAtom]_vars

(***************************************************************************)
(* Properties of the atomic generators (SpecAtom).                         *)
(***************************************************************************)
\* the enumeration the generator of a call takes its value from
EnumerationOf(op) ==
    CASE op = "gen_tempus" -> Tenses
      [] op = "gen_gender" -> Genders
      [] op = "gen_art" -> ArticleTypes
      [] op = "gen_komp" -> Degrees
      [] op = "gen_num" -> Numbers

\* the call hands its generator a value outside the enumeration
OutsideEnumeration ==
    IF call.op \in {"gen_tempus", "gen_gender", "gen_art", "gen_komp",
                    "gen_num"}
    THEN call.value \notin EnumerationOf(call.op)
    ELSE /\ call.op = "gen_pronoun"
         /\ \/ call.person \notin Persons
            \/ call.gender \notin Genders
            \/ call.numerus \notin Numbers

\* C11: an atomic generator of a closed enumeration that is given a value
\* outside the enumeration fails, and returns no node carrying the value.
AtomicGeneratorsRejectUnknownValues ==
    OutsideEnumeration => IsFailure(result)

(***************************************************************************)
(* A client that tries every entity lexicalizer once, with recognized and  *)
(* unrecognized variation modes, lexemes, languages and audience levels:   *)
(* it lexicalizes the authors and the title, and then makes one clause     *)
(* about them.                                                             *)
(***************************************************************************)
TriedAuthorLists == {<<AdaLovelace>>, <<AdaLovelace, CDManning>>}
TriedAuthorModes == {"abstract", "lastnames", "firstnames"}
TriedTitleLists == {<<AllTitles[1]>>}
TriedTitleModes == {"abstract", "complete", "pronoun", "subtitle"}
TriedAttachModes == {"None", "possessive", "preposition", "genitive"}
TriedPlangModes == {"embedded", "complete", "abstract"}

KeywordLists == {<<<<"p", "a", "r", "s", "i", "n", "g">>,
                   <<"t", "e", "x", "t", " ", "m", "i", "n", "i", "n", "g">>>>}
KeywordModes == {"abstract", "complete", "pronoun"}
KeywordLexemes == {"behandeln", "eingehen", "aufgreifen", "umfassen"}
PageCounts == {600}
PageLexemes == {"umfang", "umfassen", "laenge", "random", "dicke"}
LanguageNames == {"German", "English", "French"}
LanguageModes == {"noun", "adjective", "verb"}
TargetLevels == 0..4
ContentLexemes == {"beinhalten", "enthalten", "umfassen"}

\* the calls that build the phrases a clause is made of
BuildOps == {"none", "lexicalize_authors", "lexicalize_titles"}

TryAuthors ==
    /\ authorsT = None
    /\ titleT = None
    /\ \E authors \in TriedAuthorLists, realize \in TriedAuthorModes :
         LET d == lexicalize_authors(authors, realize)
         IN /\ call' = [op |-> "lexicalize_authors", authors |-> authors,
                        realize |-> realize]
            /\ result' = d
            /\ IF IsFailure(d)
               THEN UNCHANGED <<authorsFrom, authorsT>>
               ELSE /\ authorsT' = d
                    /\ authorsFrom' = [kind |-> "authors", names |-> authors,
                                       realize |-> realize]
    /\ UNCHANGED <<titleT, plangT>>

TryTitles ==
    /\ titleT = None
    /\ \E book_titles \in TriedTitleLists, realize \in TriedTitleModes,
          authors_realize \in TriedAttachModes,
          lexicalized_authors \in {None, authorsT} :
         LET out == lexicalize_titles(book_titles, lexicalized_authors,
                                      realize, authors_realize, 0, 0)
         IN /\ call' = [op |-> "lexicalize_titles",
                        book_titles |-> book_titles, realize |-> realize,
                        authors_realize |-> authors_realize,
                        lexicalized_authors |-> lexicalized_authors]
            /\ result' = out.ret
            /\ titleT' = IF IsFailure(out.ret) THEN titleT ELSE out.ret
            /\ authorsT' = IF lexicalized_authors = None THEN authorsT
                           ELSE out.authors
    /\ UNCHANGED <<authorsFrom, plangT>>

TryKeywords ==
    /\ call.op \in BuildOps
    /\ titleT # None
    /\ \E keywords \in KeywordLists, realize \in KeywordModes,
          lexeme \in KeywordLexemes, lexicalized_title \in {None, titleT},
          lexicalized_authors \in {None, authorsT} :
         LET out == lexicalize_keywords(keywords, lexicalized_title,
                                        lexicalized_authors, realize, lexeme)
         IN /\ call' = [op |-> "lexicalize_keywords", keywords |-> keywords,
                        lexicalized_title |-> lexicalized_title,
                        lexicalized_authors |-> lexicalized_authors,
                        realize |-> realize, lexeme |-> lexeme]
            /\ result' = out.ret
            /\ titleT' = IF lexicalized_title = None THEN titleT
                         ELSE out.title
            /\ authorsT' = IF lexicalized_authors = None THEN authorsT
                           ELSE out.authors
    /\ UNCHANGED <<authorsFrom, plangT>>

TryPages ==
    /\ call.op \in BuildOps
    /\ titleT # None
    /\ \E pages \in PageCounts, lexeme \in PageLexemes :
       \E r \in Draws(lexeme, 3) :
         LET out == lexicalize_pages(pages, titleT, lexeme, r)
         IN /\ call' = [op |-> "lexicalize_pages", pages |-> pages,
                        lexicalized_title |-> titleT, lexeme |-> lexeme]
            /\ result' = out.ret
            /\ titleT' = out.title
    /\ UNCHANGED <<authorsFrom, authorsT, plangT>>

TryLanguage ==
    /\ call.op \in BuildOps
    /\ titleT # None
    /\ \E language \in LanguageNames, realize \in LanguageModes :
         LET out == lexicalize_language(language, titleT, realize)
         IN /\ call' = [op |-> "lexicalize_language", language |-> language,
                        lexicalized_title |-> titleT, realize |-> realize]
            /\ result' = out.ret
            /\ titleT' = out.title
    /\ UNCHANGED <<authorsFrom, authorsT, plangT>>

TryTarget ==
    /\ call.op \in BuildOps
    /\ titleT # None
    /\ \E target \in TargetLevels :
         LET out == lexicalize_target(target, titleT)
         IN /\ call' = [op |-> "lexicalize_target", target |-> target,
                        lexicalized_title |-> titleT]
            /\ result' = out.ret
            /\ titleT' = out.title
    /\ UNCHANGED <<authorsFrom, authorsT, plangT>>

TryPlangClause ==
    /\ call.op \in BuildOps
    /\ titleT # None
    /\ \E realize \in TriedPlangModes, lexicalized_titles \in {None, titleT},
          lexicalized_authors \in {None, authorsT} :
         LET out == lexicalize_plang(AdaScheme, lexicalized_titles,
                                     lexicalized_authors, realize)
         IN /\ call' = [op |-> "lexicalize_plang", plang |-> AdaScheme,
                        realize |-> realize,
                        lexicalized_titles |-> lexicalized_titles,
                        lexicalized_authors |-> lexicalized_authors]
            /\ result' = out.ret
            /\ titleT' = IF lexicalized_titles = None THEN titleT
                         ELSE out.title
            /\ authorsT' = IF lexicalized_authors = None THEN authorsT
                           ELSE out.authors
    /\ UNCHANGED <<authorsFrom, plangT>>

TryCodeexamples ==
    /\ call.op \in BuildOps
    /\ titleT # None
    /\ \E examples \in Counts, lexeme \in ContentLexemes,
          lexicalized_plang \in
              {None, lexicalize_plang(AdaScheme, None, None, "embedded").ret} :
         LET out == lexicalize_codeexamples(examples, titleT,
                                            lexicalized_plang, lexeme)
         IN /\ call' = [op |-> "lexicalize_codeexamples",
                        examples |-> examples, lexicalized_title |-> titleT,
                        lexicalized_plang |-> lexicalized_plang,
                        lexeme |-> lexeme]
            /\ result' = out.ret
            /\ titleT' = out.title
            /\ plangT' = out.plang
    /\ UNCHANGED <<authorsFrom, authorsT>>

TryExercises ==
    /\ call.op \in BuildOps
    /\ titleT # None
    /\ \E exercises \in Counts, lexeme \in ContentLexemes :
         LET out == lexicalize_exercises(exercises, titleT, lexeme)
         IN /\ call' = [op |-> "lexicalize_exercises",
                        exercises |-> exercises, lexicalized_title |-> titleT,
                        lexeme |-> lexeme]
            /\ result' = out.ret
            /\ titleT' = out.title
    /\ UNCHANGED <<authorsFrom, authorsT, plangT>>

NextEntity ==
    \/ TryAuthors
    \/ TryTitles
    \/ TryKeywords
    \/ TryPages
    \/ TryLanguage
    \/ TryTarget
    \/ TryPlangClause
    \/ TryCodeexamples
    \/ TryExercises

SpecEntity == Init /\ [][NextEntity]_vars

(***************************************************************************)
(* Properties of the entity lexicalizers called with recognized and        *)
(* unrecognized arguments (SpecEntity).                                    *)
(***************************************************************************)
\* the lexemes the branches of a lexeme-taking lexicalizer name
SupportedLexemes(op) ==
    CASE op = "lexicalize_codeexamples" -> {"beinhalten", "enthalten"}
      [] op = "lexicalize_exercises" -> {"beinhalten", "enthalten"}
      [] op = "lexicalize_keywords" ->
             {"behandeln", "beschreiben", "eingehen", "aufgreifen"}
      [] op = "lexicalize_pages" ->
             {"umfang", "umfassen", "laenge", "random"}

UnsupportedLexemeCall ==
    /\ call.op \in {"lexicalize_codeexamples", "lexicalize_exercises",
                    "lexicalize_keywords", "lexicalize_pages"}
    /\ call.lexeme \notin SupportedLexemes(call.op)

\* C12: lexicalize_codeexamples, lexicalize_exercises, lexicalize_keywords
\* and lexicalize_pages fail on a lexeme they do not support; they return
\* neither a tree nor an absent value.
UnsupportedLexemeFails ==
    UnsupportedLexemeCall => IsFailure(result)

\* the call names a variation mode its lexicalizer does not recognize
UnrecognizedModeCall ==
    \/ /\ call.op = "lexicalize_authors"
       /\ call.realize \notin {"abstract", "lastnames", "complete"}
    \/ /\ call.op = "lexicalize_titles"
       /\ \/ call.realize \notin {"abstract", "complete", "pronoun", "random"}
          \/ call.authors_realize \notin
                 {"None", "possessive", "preposition", "random"}
    \/ /\ call.op = "lexicalize_keywords"
       /\ call.realize \notin {"abstract", "complete"}
    \/ /\ call.op = "lexicalize_language"
       /\ call.realize \notin {"noun", "adjective"}
    \/ /\ call.op = "lexicalize_plang"
       /\ call.realize \notin {"embedded", "complete"}

\* C13: a lexicalizer call with an unrecognized variation-mode string (realize
\* of lexicalize_authors, lexicalize_titles, lexicalize_keywords,
\* lexicalize_language, lexicalize_plang, or authors_realize of
\* lexicalize_titles) fails; it never returns an absent value.
UnrecognizedModeFails ==
    UnrecognizedModeCall => IsFailure(result)

\* the tree the call was given as the argument of that name, None if none
Passed(argument) ==
    IF argument \in DOMAIN call THEN call[argument] ELSE None

\* the tree has the mode label and the children it had before the call
SameModeAndChildren(before, after) ==
    before # None => /\ after.mode = before.mode
                     /\ after.kids = before.kids

\* C14: when a call of an entity lexicalizer fails, every tree it was given
\* has the same mode label and the same children after the call as before.
FailedCallKeepsArguments ==
    (call.op \in {"lexicalize_titles", "lexicalize_keywords",
                  "lexicalize_pages", "lexicalize_language",
                  "lexicalize_target", "lexicalize_plang",
                  "lexicalize_codeexamples", "lexicalize_exercises"}
     /\ IsFailure(result))
    => /\ SameModeAndChildren(Passed("lexicalized_title"), titleT)
       /\ SameModeAndChildren(Passed("lexicalized_titles"), titleT)
       /\ SameModeAndChildren(Passed("lexicalized_authors"), authorsT)
       /\ SameModeAndChildren(Passed("lexicalized_plang"), plangT)

\* the call of lexicalize_keywords names a mode the function recognizes
KeywordsCall ==
    /\ call.op = "lexicalize_keywords"
    /\ call.realize \in {"abstract", "complete"}

\* the clause has the tree as its agent: as the child AGENS of its root or,
\* under a separable verb, of the auxiliary of its root
HasAgent(clause, agens) ==
    \E i \in 1..Len(clause.kids) :
        \/ /\ clause.kids[i].label = "AGENS"
           /\ clause.kids[i].node = agens
        \/ /\ clause.kids[i].label = "AUX"
           /\ \E j \in 1..Len(clause.kids[i].node.kids) :
                  /\ clause.kids[i].node.kids[j].label = "AGENS"
                  /\ clause.kids[i].node.kids[j].node = agens

\* the call took the title for the agent and left the authors alone
TitleIsAgent ==
    /\ ~IsFailure(result)
    /\ titleT = change_mode(call.lexicalized_title, "AGENS")
    /\ call.lexicalized_authors # None => authorsT = call.lexicalized_authors
    /\ IsDiamond(result) => HasAgent(result, titleT)

\* the call took the authors for the agent
AuthorsAreAgent ==
    /\ ~IsFailure(result)
    /\ authorsT = change_mode(call.lexicalized_authors, "AGENS")
    /\ IsDiamond(result) => HasAgent(result, authorsT)

\* C15 as stated: lexicalize_keywords takes exactly one of lexicalized_title
\* and lexicalized_authors: it fails with neither and with both, and with
\* exactly one it uses that tree, relabelled AGENS, as the agent.
KeywordsNeedExactlyOneAgent ==
    KeywordsCall =>
        IF call.lexicalized_title = None /\ call.lexicalized_authors = None
        THEN result = AssertionError
        ELSE IF call.lexicalized_title # None /\ call.lexicalized_authors # None
        THEN IsFailure(result)
        ELSE IF call.lexicalized_title # None THEN TitleIsAgent
        ELSE AuthorsAreAgent

\* C15 amended: lexicalize_keywords takes at least one of lexicalized_title
\* and lexicalized_authors: it fails with neither; given a title, alone or
\* together with authors, it uses the title, relabelled AGENS, as the agent
\* and leaves the authors alone; given authors only, it uses the authors.
KeywordsNeedTitleOrAuthors ==
    KeywordsCall =>
        IF call.lexicalized_title = None /\ call.lexicalized_authors = None
        THEN result = AssertionError
        ELSE IF call.lexicalized_title # None THEN TitleIsAgent
        ELSE AuthorsAreAgent

\* a clause about keywords made from a title and authors
KeywordsWithTitleAndAuthors ==
    /\ KeywordsCall
    /\ call.lexicalized_title # None
    /\ call.lexicalized_authors # None
    /\ IsDiamond(result)
    /\ HasAgent(result, titleT)

(***************************************************************************)
(* Properties of lexicalize_titles and its author attachment (Spec).       *)
(***************************************************************************)
\* C16: lexicalize_titles called with an author attachment mode (possessive,
\* preposition or random) but without lexicalized authors fails; it does not
\* return the bare title.
AttachmentNeedsAuthors ==
    (/\ call.op = "lexicalize_titles"
     /\ call.authors_realize \in {"possessive", "preposition", "random"}
     /\ call.lexicalized_authors = None)
    => IsFailure(result)

\* a call to lexicalize_titles with realize "random" and lexicalized authors
\* that cannot fail for a possessive of more than one author
RandomTitleWithAuthors ==
    /\ call.op = "lexicalize_titles"
    /\ call.realize = "random"
    /\ call.lexicalized_authors # None
    /\ ~(/\ call.authors_realize = "possessive"
         /\ sing_or_plur(call.lexicalized_authors) # "sing")

\* C20: lexicalize_titles with realize "random" and lexicalized authors never
\* fails for a pronoun title with an author, whatever authors_realize is.
RandomTitleNeverPronounWithAuthors ==
    RandomTitleWithAuthors => result # AssertionError

(***************************************************************************)
(* The variations of lexicalize_messageblocks.py.  The dictionaries hold   *)
(* their trees by reference: a title tree that has an authors tree         *)
(* attached holds, in the place of that sub-diamond, a reference to the    *)
(* entry of the authors dictionary, and the authors dictionary holds the   *)
(* tree as the calls have left it.  The variations are pure functions of   *)
(* their arguments, and the client calls one of them once.                 *)
(***************************************************************************)
\* lexicalize_authors as it is called with any Python value
lexicalize_authors_arg(authors, realize) ==
    IF authors.kind # "list" THEN AssertionError
    ELSE lexicalize_authors(authors.names, realize)

AuthorVariations == <<"abstract", "complete", "lastnames">>

lexicalize_authors_variations(authors) ==
    LET trees == [i \in 1..Len(AuthorVariations) |->
                     lexicalize_authors_arg(authors, AuthorVariations[i])]
    IN IF FirstFailure(trees) # None THEN FirstFailure(trees)
       ELSE [kind |-> "dict",
             entries |-> [v \in {"abstract", "complete", "lastnames"} |->
                             lexicalize_authors_arg(authors, v)]]

\* lexicalize_title: the lexicalization of the one title of the tuple
lexicalize_title(title, lexicalized_authors, realize, authors_realize) ==
    lexicalize_titles(<<title.title>>, lexicalized_authors, realize,
                      authors_realize, 0, 0)

\* the title / author combinations of lexicalize_title_variations, in the
\* order of the calls
TitleAuthorVariations ==
    <<[key |-> "title+complete-names-possessive", authors |-> "complete",
       realize |-> "complete", authors_realize |-> "possessive"],
      [key |-> "title+lastnames-possessive", authors |-> "lastnames",
       realize |-> "complete", authors_realize |-> "possessive"],
      [key |-> "title+complete-names-preposition", authors |-> "complete",
       realize |-> "complete", authors_realize |-> "preposition"],
      [key |-> "title+lastnames-preposition", authors |-> "lastnames",
       realize |-> "complete", authors_realize |-> "preposition"],
      [key |-> "abstract-title+complete-names-preposition",
       authors |-> "complete", realize |-> "abstract",
       authors_realize |-> "preposition"],
      [key |-> "abstract-title+lastnames-preposition",
       authors |-> "lastnames", realize |-> "abstract",
       authors_realize |-> "preposition"]>>

\* the title tree with its last sub-diamond, the authors tree that was
\* attached, held by reference
WithReference(title_diamond, variation) ==
    [title_diamond EXCEPT
        !.kids[Len(title_diamond.kids)].node =
            [kind |-> "ref", to |-> variation]]

RECURSIVE title_author_variations(_, _, _, _)
title_author_variations(title, title_variations, authors_variations, i) ==
    IF i > Len(TitleAuthorVariations)
    THEN [kind |-> "dict", entries |-> title_variations,
          authors |-> authors_variations]
    ELSE LET v == TitleAuthorVariations[i]
             out == lexicalize_title(title, authors_variations[v.authors],
                                     v.realize, v.authors_realize)
         IN IF IsFailure(out.ret) THEN out.ret
            ELSE title_author_variations(
                     title,
                     title_variations @@
                         (v.key :> WithReference(out.ret, v.authors)),
                     [authors_variations EXCEPT ![v.authors] = out.authors],
                     i + 1)

lexicalize_title_variations(title, authors) ==
    LET plain == [v \in {"abstract", "complete", "pronoun"} |->
                     lexicalize_title(title, None, v, "None").ret]
        authors_variations == lexicalize_authors_variations(authors)
    IN IF \E v \in DOMAIN plain : IsFailure(plain[v])
       THEN CHOOSE f \in {plain[v] : v \in DOMAIN plain} : IsFailure(f)
       ELSE IF IsFailure(authors_variations) THEN authors_variations
       ELSE title_author_variations(title, plain,
                                    authors_variations.entries, 1)

\* the arguments of the variations: (title, rating) and (authors, rating)
\* tuples, and the authors as a list of names
Ratings == {"", "neutral"}
TitleTuples == {[kind |-> "tuple", title |-> t, rating |-> r] :
                   t \in BookTitles, r \in Ratings}
AuthorArguments ==
    {[kind |-> "tuple", names |-> a, rating |-> r] :
        a \in AuthorLists, r \in Ratings}
    \cup {[kind |-> "list", names |-> a] : a \in AuthorLists}

LexicalizeAuthorsVariations ==
    /\ call.op = "none"
    /\ \E authors \in AuthorArguments :
         /\ call' = [op |-> "lexicalize_authors_variations",
                     authors |-> authors]
         /\ result' = lexicalize_authors_variations(authors)
    /\ UNCHANGED <<authorsFrom, authorsT, titleT, plangT>>

LexicalizeTitleVariations ==
    /\ call.op = "none"
    /\ \E title \in TitleTuples, authors \in AuthorArguments :
         /\ call' = [op |-> "lexicalize_title_variations", title |-> title,
                     authors |-> authors]
         /\ result' = lexicalize_title_variations(title, authors)
    /\ UNCHANGED <<authorsFrom, authorsT, titleT, plangT>>

NextVariations ==
    \/ LexicalizeAuthorsVariations
    \/ LexicalizeTitleVariations

SpecVariations == Init /\ [][NextVariations]_vars

(***************************************************************************)
(* Properties of the variations (SpecVariations).                          *)
(***************************************************************************)
IsDict(v) == v.kind = "dict"

\* C19: lexicalize_authors_variations, called with the tuple of author names
\* and rating of its documentation, returns a dictionary with exactly the
\* keys abstract, complete and lastnames, each with the tree that
\* lexicalize_authors builds for that mode.
AuthorsVariationsOfTuple ==
    (/\ call.op = "lexicalize_authors_variations"
     /\ call.authors.kind = "tuple")
    => /\ IsDict(result)
       /\ DOMAIN result.entries = {"abstract", "complete", "lastnames"}
       /\ \A v \in {"abstract", "complete", "lastnames"} :
              result.entries[v] = lexicalize_authors(call.authors.names, v)

PossessiveKeys == {"title+complete-names-possessive",
                   "title+lastnames-possessive"}
PlainAndPrepositionKeys ==
    {"abstract", "complete", "pronoun",
     "title+complete-names-preposition", "title+lastnames-preposition",
     "abstract-title+complete-names-preposition",
     "abstract-title+lastnames-preposition"}

\* C17: lexicalize_title_variations returns a dictionary for every title and
\* every non-empty set of authors: with one author it has the possessive
\* entries next to the plain and preposition entries, with more than one
\* author it has the plain and preposition entries only.
TitleVariationsForEveryAuthorSet ==
    call.op = "lexicalize_title_variations"
    => /\ IsDict(result)
       /\ DOMAIN result.entries =
              IF Len(call.authors.names) = 1
              THEN PlainAndPrepositionKeys \cup PossessiveKeys
              ELSE PlainAndPrepositionKeys

\* the title variations that hold the entry of the authors dictionary
HoldersOf(variation) ==
    {k \in DOMAIN result.entries :
        \E i \in 1..Len(result.entries[k].kids) :
            result.entries[k].kids[i].node =
                [kind |-> "ref", to |-> variation]}

TwiceTitleTrees ==
    {lexicalize_titles(<<AllTitles[1]>>, None, realize, "None", 0, 0).ret :
        realize \in {"abstract", "complete", "pronoun"}}
TwiceAuthorTrees ==
    {lexicalize_authors(a, "lastnames") : a \in AuthorLists}
\* the draws of the two calls of random.choice in one call: a draw chooses
\* among two by its parity and among three by its remainder
RandomDraws == 0..5

Twice(first, second) == [kind |-> "twice", first |-> first, second |-> second]

TwiceLexicalizeAuthors ==
    /\ call.op = "none"
    /\ \E authors \in AuthorLists, realize \in AuthorModes :
         /\ call' = [op |-> "twice", of |-> "lexicalize_authors",
                     authors |-> authors, realize |-> realize]
         /\ result' = Twice(lexicalize_authors(authors, realize),
                            lexicalize_authors(authors, realize))
    /\ UNCHANGED <<authorsFrom, authorsT, titleT, plangT>>

TwiceLexicalizeTitles ==
    /\ call.op = "none"
    /\ \E book_titles \in TitleLists, realize \in TitleModes,
          authors_realize \in AuthorAttachModes,
          lexicalized_authors \in {None} \cup TwiceAuthorTrees,
          r \in RandomDraws, s \in RandomDraws :
         /\ call' = [op |-> "twice", of |-> "lexicalize_titles",
                     book_titles |-> book_titles, realize |-> realize,
                     authors_realize |-> authors_realize,
                     lexicalized_authors |-> lexicalized_authors]
         /\ result' =
                Twice(lexicalize_titles(book_titles, lexicalized_authors,
                                        realize, authors_realize, r, r).ret,
                      lexicalize_titles(book_titles, lexicalized_authors,
                                        realize, authors_realize, s, s).ret)
    /\ UNCHANGED <<authorsFrom, authorsT, titleT, plangT>>

TwiceLexicalizePages ==
    /\ call.op = "none"
    /\ \E pages \in PageCounts, lexicalized_title \in TwiceTitleTrees,
          lexeme \in {"umfang", "umfassen", "laenge", "random"},
          r \in RandomDraws, s \in RandomDraws :
         /\ call' = [op |-> "twice", of |-> "lexicalize_pages",
                     pages |-> pages, lexeme |-> lexeme,
                     lexicalized_title |-> lexicalized_title]
         /\ result' =
                Twice(lexicalize_pages(pages, lexicalized_title, lexeme,
                                       r).ret,
                      lexicalize_pages(pages, lexicalized_title, lexeme,
                                       s).ret)
    /\ UNCHANGED <<authorsFrom, authorsT, titleT, plangT>>

TwiceLexicalizeLanguage ==
    /\ call.op = "none"
    /\ \E language \in DOMAIN languages,
          lexicalized_title \in TwiceTitleTrees,
          realize \in {"noun", "adjective"} :
         /\ call' = [op |-> "twice", of |-> "lexicalize_language",
                     language |-> language, realize |-> realize,
                     lexicalized_title |-> lexicalized_title]
         /\ result' =
                Twice(lexicalize_language(language, lexicalized_title,
                                          realize).ret,
                      lexicalize_language(language, lexicalized_title,
                                          realize).ret)
    /\ UNCHANGED <<authorsFrom, authorsT, titleT, plangT>>

TwiceLexicalizeKeywords ==
    /\ call.op = "none"
    /\ \E keywords \in KeywordLists, lexicalized_title \in TwiceTitleTrees,
          realize \in {"abstract", "complete"},
          lexeme \in {"behandeln", "beschreiben", "eingehen", "aufgreifen"} :
         /\ call' = [op |-> "twice", of |-> "lexicalize_keywords",
                     keywords |-> keywords, realize |-> realize,
                     lexeme |-> lexeme,
                     lexicalized_title |-> lexicalized_title]
         /\ result' =
                Twice(lexicalize_keywords(keywords, lexicalized_title, None,
                                          realize, lexeme).ret,
                      lexicalize_keywords(keywords, lexicalized_title, None,
                                          realize, lexeme).ret)
    /\ UNCHANGED <<authorsFrom, authorsT, titleT, plangT>>

TwiceGenEnumeration ==
    /\ call.op = "none"
    /\ \E diamonds_list \in SeqsUpTo(EnumItems, 0, MaxItems - 1),
          mode \in EnumModes :
         /\ call' = [op |-> "twice", of |-> "gen_enumeration",
                     diamonds_list |-> diamonds_list, mode |-> mode]
         /\ result' = Twice(gen_enumeration(diamonds_list, mode),
                            gen_enumeration(diamonds_list, mode))
    /\ UNCHANGED <<authorsFrom, authorsT, titleT, plangT>>

TwiceGenPronoun ==
    /\ call.op = "none"
    /\ \E person \in Persons, pronoun_type \in {"perspro", "reflpro"},
          gender \in Genders, numerus \in Numbers :
         /\ call' = [op |-> "twice", of |-> "gen_pronoun",
                     person |-> person, pronoun_type |-> pronoun_type,
                     gender |-> gender, numerus |-> numerus]
         /\ result' =
                Twice(gen_pronoun(person, pronoun_type, gender, numerus, ""),
                      gen_pronoun(person, pronoun_type, gender, numerus, ""))
    /\ UNCHANGED <<authorsFrom, authorsT, titleT, plangT>>

NextTwice ==
    \/ TwiceLexicalizeAuthors
    \/ TwiceLexicalizeTitles
    \/ TwiceLexicalizePages
    \/ TwiceLexicalizeLanguage
    \/ TwiceLexicalizeKeywords
    \/ TwiceGenEnumeration
    \/ TwiceGenPronoun

SpecTwice == Init /\ [][NextTwice]_vars

(***************************************************************************)
(* Determinism of the generators and lexicalizers (SpecTwice).             *)
(***************************************************************************)
\* the call names "random" for one of its arguments
NamesRandom ==
    \/ /\ call.of = "lexicalize_titles"
       /\ "random" \in {call.realize, call.authors_realize}
    \/ /\ call.of = "lexicalize_pages"
       /\ call.lexeme = "random"

\* C21 as stated: a generator, combinator or entity lexicalizer that is
\* called twice with equal arguments returns equal trees.
EqualCallsEqualTrees ==
    call.op = "twice" => result.first = result.second

\* C21 amended: a generator, combinator or entity lexicalizer that is called
\* twice with equal arguments, none of which is "random", returns equal
\* trees.
EqualCallsWithoutRandomEqualTrees ==
    (call.op = "twice" /\ ~NamesRandom) => result.first = result.second

\* lexicalize_pages called twice for a lexeme the caller names
PagesTwiceForALexeme ==
    /\ call.op = "twice"
    /\ call.of = "lexicalize_pages"
    /\ call.lexeme # "random"
    /\ IsDiamond(result.first)
    /\ result.first = result.second

(***************************************************************************)
(* The clauses of lexicalize_language (SpecEntity).                        *)
(***************************************************************************)
LanguageClause ==
    /\ call.op = "lexicalize_language"
    /\ IsDiamond(result)

\* the clause is a present-tense copula clause with the title, relabelled
\* SUBJ, as its second child
LanguageCopulaFrame ==
    /\ result.prop = "sein-kop"
    /\ Len(result.kids) = 3
    /\ result.kids[1].node = gen_tempus("praes")
    /\ titleT = change_mode(call.lexicalized_title, "SUBJ")
    /\ result.kids[2].label = "SUBJ"
    /\ result.kids[2].node = titleT
    /\ result.kids[3].label = "PRKOMPL"

\* the predicative complement of the clause has the shape of the form the
\* call names, with the given preposition in the noun form
LanguageComplement(noun_preposition) ==
    LET prkompl == result.kids[3].node
    IN IF call.realize = "noun"
       THEN /\ prkompl.prop = JoinChars(languages[call.language])
            /\ HasChildLabelled(prkompl, "PRAEP")
            /\ ChildLabelled(prkompl, "PRAEP").prop = noun_preposition
            /\ ~HasChildLabelled(prkompl, "MOD")
       ELSE /\ prkompl.prop = "Sprache"
            /\ HasChildLabelled(prkompl, "PRAEP")
            /\ ChildLabelled(prkompl, "PRAEP").prop = "in"
            /\ HasChildLabelled(prkompl, "MOD")
            /\ ChildLabelled(prkompl, "MOD").prop =
                   JoinChars(Lower(languages[call.language]))
            /\ Children(ChildLabelled(prkompl, "MOD")) = <<gen_komp("pos")>>

\* C22 as stated: the noun form of lexicalize_language is the language noun
\* with the preposition "in", the adjective form the noun "Sprache" with
\* "in" and a positive-degree adjective of the language; in both the title
\* is the subject and second child of a present-tense copula clause.
LanguageNounWithIn ==
    LanguageClause => LanguageCopulaFrame /\ LanguageComplement("in")

\* C22 amended: as stated, but the preposition of the noun form is "auf".
LanguageNounWithAuf ==
    LanguageClause => LanguageCopulaFrame /\ LanguageComplement("auf")

\* a clause about the language in the noun form
LanguageNounClause ==
    /\ LanguageClause
    /\ call.realize = "noun"
    /\ ChildLabelled(result.kids[3].node, "PRAEP").prop = "auf"

(***************************************************************************)
(* The coordination nodes of an enumeration (SpecGen).                     *)
(***************************************************************************)
IsAnchored(t, anchor) == IsDiamond(t) /\ t.prop = anchor

\* the number of nodes of the tree, the root included, with the anchor
RECURSIVE AnchorCount(_, _)
RECURSIVE AnchorCountBelow(_, _, _)
AnchorCount(t, anchor) ==
    (IF IsAnchored(t, anchor) THEN 1 ELSE 0) + AnchorCountBelow(t, anchor, 1)
AnchorCountBelow(t, anchor, i) ==
    IF i > Len(t.kids) THEN 0
    ELSE AnchorCount(t.kids[i].node, anchor)
             + AnchorCountBelow(t, anchor, i + 1)

\* every node with one of the two coordination anchors has the mode and the
\* coordination category
RECURSIVE CoordinationsCarry(_, _)
CoordinationsCarry(t, mode) ==
    /\ (IsAnchored(t, "und") \/ IsAnchored(t, "komma"))
           => t.mode = mode /\ t.nom = "konjunktion"
    /\ \A i \in 1..Len(t.kids) : CoordinationsCarry(t.kids[i].node, mode)

\* no node with the comma anchor has a node with the conjunction anchor
\* below it
RECURSIVE NoConjunctionBelowComma(_)
NoConjunctionBelowComma(t) ==
    /\ IsAnchored(t, "komma") => AnchorCountBelow(t, "und", 1) = 0
    /\ \A i \in 1..Len(t.kids) : NoConjunctionBelowComma(t.kids[i].node)

\* C23: in the tree gen_enumeration returns for n >= 2 items, every
\* coordination node has the caller's mode and the category "konjunktion",
\* the root is the one node with the anchor "und", n - 2 nodes have the
\* anchor "komma", and no "komma" node has an "und" node below it.
EnumerationCoordinationNodes ==
    (call.op = "gen_enumeration" /\ Len(call.diamonds_list) >= 2) =>
        /\ CoordinationsCarry(result, call.mode)
        /\ IsAnchored(result, "und")
        /\ AnchorCount(result, "und") = 1
        /\ AnchorCount(result, "komma") = Len(call.diamonds_list) - 2
        /\ NoConjunctionBelowComma(result)

\* an enumeration of four items in a mode of the caller: two comma nodes
EnumerationWithTwoCommas ==
    /\ call.op = "gen_enumeration"
    /\ Len(call.diamonds_list) = 4
    /\ call.mode = "NP"
    /\ AnchorCount(result, "komma") = 2
    /\ Children(Children(result)[1])[1].mode = "NP"

(***************************************************************************)
(* The random attachment of the authors to a title (Spec).                 *)
(***************************************************************************)
RandomAttachmentCall ==
    /\ call.op = "lexicalize_titles"
    /\ call.authors_realize = "random"
    /\ call.realize # "pronoun"
    /\ call.lexicalized_authors # None

\* the title has the authors attached as its last sub-diamond, under the
\* mode, with or without the preposition "von" in front
AttachedAs(mode, with_preposition) ==
    /\ IsDiamond(result)
    /\ Len(result.kids) > 0
    /\ Last(result.kids).label = mode
    /\ Last(result.kids).node = authorsT
    /\ authorsT.mode = mode
    /\ (PrepCount(authorsT) > PrepCount(call.lexicalized_authors))
           <=> with_preposition

\* C24: lexicalize_titles with authors_realize "random" and a title that is
\* no pronoun never fails for a possessive of more than one author: it
\* attaches the authors of more than one author by preposition, and a single
\* author as possessive or by preposition.
RandomAttachmentByAuthorCount ==
    RandomAttachmentCall =>
        /\ result # AssertionError
        /\ IF Len(authorsFrom.names) > 1
           THEN AttachedAs("ATTRIB", TRUE)
           ELSE AttachedAs("ATTRIB", TRUE) \/ AttachedAs("ASS", FALSE)

\* the authors tree of two authors attached at random
RandomAttachmentOfTwoAuthors ==
    /\ RandomAttachmentCall
    /\ Len(authorsFrom.names) = 2
    /\ AttachedAs("ATTRIB", TRUE)

(***************************************************************************)
(* The message blocks of lexicalize_messageblocks.py.                      *)
(***************************************************************************)
\* the values of a dictionary, in the order dict.values() lists them
DictValues(d) ==
    LET keys == CHOOSE order \in [1..Cardinality(DOMAIN d) -> DOMAIN d] :
                    \A i, j \in DOMAIN order : i # j => order[i] # order[j]
    IN [i \in DOMAIN keys |-> d[keys[i]]]

random_variation(lexicalization_dictionary, r) ==
    random_choice(DictValues(lexicalization_dictionary), r)

\* lexicalize_title_description: its value is not used by lexicalize_id
lexicalize_title_description(title, authors, year) == None

\* the arguments of the call to lexicalize_codeexamples in lexicalize_id, by
\* the parameter each positional argument is bound to
id_codeexamples_arguments(id_message_block, r) ==
    LET title_variations == id_message_block["title"]
    IN IF "proglang" \in DOMAIN id_message_block
       THEN [examples |-> id_message_block["codeexamples"],
             lexicalized_title |->
                 lexicalize_plang(id_message_block["proglang"], None, None,
                                  "embedded").ret,
             lexicalized_plang |-> random_variation(title_variations, r),
             lexeme |-> "random"]
       ELSE [examples |-> id_message_block["codeexamples"],
             lexicalized_title |-> random_variation(title_variations, r),
             lexicalized_plang |-> None,
             lexeme |-> "random"]

\* lexicalize_id: the value it prints, next to the arguments it passed
lexicalize_id(id_message_block, r) ==
    LET description ==
            lexicalize_title_description(
                id_message_block["title"], id_message_block["authors"],
                IF "year" \in DOMAIN id_message_block
                THEN id_message_block["year"] ELSE None)
        passed == id_codeexamples_arguments(id_message_block, r)
    IN IF IsFailure(description)
       THEN [kind |-> "printed", ret |-> description, passed |-> None]
       ELSE IF "codeexamples" \in DOMAIN id_message_block
       THEN IF IsFailure(passed.lexicalized_title)
            THEN [kind |-> "printed", ret |-> passed.lexicalized_title,
                  passed |-> None]
            ELSE [kind |-> "printed",
                  ret |-> lexicalize_codeexamples(
                              passed.examples, passed.lexicalized_title,
                              passed.lexicalized_plang, passed.lexeme).ret,
                  passed |-> passed]
       ELSE [kind |-> "printed", ret |-> None, passed |-> None]

\* the contrast with the two clauses in each other's role
fake_lastbook_nomatch_swapped(lexicalized_lastbook_message, lexicalized_message) ==
    LET hs == change_mode(lexicalized_lastbook_message, "HS")
        vl == change_mode(lexicalized_message, "VL")
        ns == create_diamond("NS", "adversativ", "wohingegen", <<vl>>)
    IN create_diamond("", "subjunktion", "komma", <<hs, ns>>)

fake_lastbook_nomatch(lexicalized_lastbook_message, lexicalized_message) ==
    LET hs == change_mode(lexicalized_message, "HS")
        vl == change_mode(lexicalized_lastbook_message, "VL")
        ns == create_diamond("NS", "adversativ", "wohingegen", <<vl>>)
    IN create_diamond("", "subjunktion", "komma", <<hs, ns>>)


\* the id message blocks: the variations of a title and of the authors, and
\* the messages about the year, the code examples and the programming
\* languages, each of which may be missing
NoMessage == [k \in {} |-> None]
IdTitleVariations(book_title) ==
    [v \in {"abstract", "complete", "pronoun"} |->
        lexicalize_titles(<<book_title>>, None, v, "None", 0, 0).ret]
IdAuthorVariations ==
    [v \in {"abstract", "complete", "lastnames"} |->
        lexicalize_authors(<<AdaLovelace>>, v)]
IdMessageBlocks ==
    {("title" :> IdTitleVariations(t)) @@ ("authors" :> IdAuthorVariations)
         @@ year @@ codeexamples @@ proglang :
        t \in BookTitles,
        year \in {NoMessage, "year" :> 2010},
        codeexamples \in {NoMessage} \cup {"codeexamples" :> n : n \in Counts},
        proglang \in {NoMessage} \cup {"proglang" :> p : p \in PlangArrays}}

\* the clauses about the language of a book
LanguageClauses ==
    {lexicalize_language(language, title, realize).ret :
        language \in DOMAIN languages, title \in TwiceTitleTrees,
        realize \in {"noun", "adjective"}}

LexicalizeId ==
    /\ call.op = "none"
    /\ \E id_message_block \in IdMessageBlocks, r \in 0..2 :
         /\ call' = [op |-> "lexicalize_id",
                     id_message_block |-> id_message_block]
         /\ result' = lexicalize_id(id_message_block, r)
    /\ UNCHANGED <<authorsFrom, authorsT, titleT, plangT>>

FakeLastbookNomatch ==
    /\ call.op = "none"
    /\ \E lexicalized_lastbook_message \in LanguageClauses,
          lexicalized_message \in LanguageClauses :
         /\ call' = [op |-> "fake_lastbook_nomatch",
                     lexicalized_lastbook_message |->
                         lexicalized_lastbook_message,
                     lexicalized_message |-> lexicalized_message]
         /\ result' = fake_lastbook_nomatch(lexicalized_lastbook_message,
                                            lexicalized_message)
    /\ UNCHANGED <<authorsFrom, authorsT, titleT, plangT>>

NextBlocks ==
    \/ LexicalizeId
    \/ FakeLastbookNomatch

SpecBlocks == Init /\ [][NextBlocks]_vars

(***************************************************************************)
(* Properties of the message blocks (SpecBlocks).                          *)
(***************************************************************************)
IdCodeexamplesCall ==
    /\ call.op = "lexicalize_id"
    /\ "codeexamples" \in DOMAIN call.id_message_block

\* C25: for an id message block with code examples, with or without
\* programming languages, the call lexicalize_id makes to
\* lexicalize_codeexamples succeeds, gets a title variation as
\* lexicalized_title and the embedded programming languages as
\* lexicalized_plang, and names a lexeme lexicalize_codeexamples supports.
IdPassesArgumentsInTheirRoles ==
    IdCodeexamplesCall =>
        /\ IsDiamond(result.ret)
        /\ result.passed # None
        /\ \E v \in DOMAIN call.id_message_block["title"] :
               result.passed.lexicalized_title =
                   call.id_message_block["title"][v]
        /\ "proglang" \in DOMAIN call.id_message_block =>
               result.passed.lexicalized_plang =
                   gen_plang(call.id_message_block["proglang"], "N")
        /\ result.passed.lexeme \in SupportedLexemes("lexicalize_codeexamples")

\* C27: fake_lastbook_nomatch returns a root whose children are the clause
\* about the current book, relabelled HS, and a node "wohingegen" over the
\* clause about the last book alone, relabelled VL; the children of the two
\* clauses are as they were.
ContrastOfTwoClauses ==
    call.op = "fake_lastbook_nomatch" =>
        /\ IsDiamond(result)
        /\ Len(result.kids) = 2
        /\ Children(result)[1] =
               [call.lexicalized_message EXCEPT !.mode = "HS"]
        /\ Children(result)[2].prop = "wohingegen"
        /\ Children(Children(result)[2]) =
               <<[call.lexicalized_lastbook_message EXCEPT !.mode = "VL"]>>

\* the contrast of a clause with another one
ContrastOfDifferentClauses ==
    /\ call.op = "fake_lastbook_nomatch"
    /\ call.lexicalized_message # call.lexicalized_lastbook_message
    /\ IsDiamond(result)
    /\ Children(result)[1].mode = "HS"
    /\ Children(Children(result)[2])[1].mode = "VL"

(***************************************************************************)
(* The language phrase in lexicalize_codeexamples (SpecClause).            *)
(***************************************************************************)
CodeexamplesWithLanguages ==
    /\ call.op = "lexicalize_codeexamples"
    /\ call.lexicalized_plang # None
    /\ IsDiamond(result)

\* the tree occurs in the other one, under whatever mode
RECURSIVE Occurs(_, _)
Occurs(sub, t) ==
    \/ [t EXCEPT !.mode = sub.mode] = sub
    \/ \E i \in 1..Len(t.kids) : Occurs(sub, t.kids[i].node)

\* the language phrase the client holds after the call is the one it passed
\* with the preposition "in" as a new sub-diamond at index 1 and the mode
\* ATTRIB
LanguagesGotPreposition ==
    /\ plangT.mode = "ATTRIB"
    /\ HasKey(plangT, 1, "PRAEP")
    /\ GetKey(plangT, 1, "PRAEP") = gen_prep("in", "zusammenhang")
    /\ Len(plangT.kids) = Len(call.lexicalized_plang.kids) + 1
    /\ \A i \in 1..Len(call.lexicalized_plang.kids) :
           LET k == call.lexicalized_plang.kids[i]
           IN IF k.idx < 1 THEN plangT.kids[i] = k
              ELSE plangT.kids[i + 1] = [k EXCEPT !.idx = @ + 1]

\* C26: lexicalize_codeexamples uses the language phrase it is given only for
\* a count that is not zero: it inserts the preposition "in" at index 1,
\* relabels the phrase ATTRIB and makes it the second child of the patient
\* phrase, after the plural marker; for the count zero the phrase is left as
\* it was and does not occur in the clause.
CodeexamplesLanguageFrame ==
    CodeexamplesWithLanguages =>
        IF call.examples # 0
        THEN /\ LanguagesGotPreposition
             /\ Children(ChildLabelled(result, "PATIENS")) =
                    <<gen_num("plur"), plangT>>
        ELSE /\ plangT = call.lexicalized_plang
             /\ ~Occurs(call.lexicalized_plang, result)

\* a clause about no code examples, made with a language phrase
NoCodeexamplesWithLanguages ==
    /\ CodeexamplesWithLanguages
    /\ call.examples = 0
    /\ plangT = call.lexicalized_plang
    /\ plangT.mode = "N"

(***************************************************************************)
(* A client that hands one title tree to one clause lexicalizer after the  *)
(* other and keeps what they return. A clause holds the title as the       *)
(* object it was given: the model writes a reference in its place, and the *)
(* title itself is the tree in titleT.                                     *)
(***************************************************************************)
MaxCalls == 3        \* most clause lexicalizers called with the one title

TitleReference == [kind |-> "ref", to |-> "lexicalized_title"]

\* the returned tree with the title it was built around held by reference
RECURSIVE ByReference(_, _)
ByReference(returned, title) ==
    IF ~IsDiamond(returned) THEN returned
    ELSE [returned EXCEPT !.kids =
             [i \in 1..Len(returned.kids) |->
                 IF returned.kids[i].node = title
                 THEN [returned.kids[i] EXCEPT !.node = TitleReference]
                 ELSE [returned.kids[i] EXCEPT
                          !.node = ByReference(@, title)]]]

SharedTitleTrees ==
    {lexicalize_titles(<<AllTitles[1]>>, None, realize, "None", 0, 0).ret :
        realize \in {"abstract", "complete", "pronoun"}}
SharedPageLexemes == {"umfang", "laenge", "dicke"}
SharedLanguages == {"German", "French"}

Returned(out) ==
    [kind |-> "returned",
     returned |-> Append(result.returned, ByReference(out.ret, out.title))]

SharedLexicalizeTitles ==
    /\ titleT = None
    /\ \E title \in SharedTitleTrees :
         /\ call' = [op |-> "lexicalize_titles"]
         /\ titleT' = title
    /\ result' = [kind |-> "returned", returned |-> <<>>]
    /\ UNCHANGED <<authorsFrom, authorsT, plangT>>

SharedCall ==
    /\ titleT # None
    /\ Len(result.returned) < MaxCalls

SharedLexicalizePages ==
    /\ SharedCall
    /\ \E lexeme \in SharedPageLexemes :
         LET out == lexicalize_pages(600, titleT, lexeme, 0)
         IN /\ call' = [op |-> "lexicalize_pages", pages |-> 600,
                        lexeme |-> lexeme]
            /\ result' = Returned(out)
            /\ titleT' = out.title
    /\ UNCHANGED <<authorsFrom, authorsT, plangT>>

SharedLexicalizeYear ==
    /\ SharedCall
    /\ LET out == lexicalize_year(1986, titleT)
       IN /\ call' = [op |-> "lexicalize_year", year |-> 1986]
          /\ result' = Returned(out)
          /\ titleT' = out.title
    /\ UNCHANGED <<authorsFrom, authorsT, plangT>>

SharedLexicalizeLanguage ==
    /\ SharedCall
    /\ \E language \in SharedLanguages :
         LET out == lexicalize_language(language, titleT, "noun")
         IN /\ call' = [op |-> "lexicalize_language", language |-> language,
                        realize |-> "noun"]
            /\ result' = Returned(out)
            /\ titleT' = out.title
    /\ UNCHANGED <<authorsFrom, authorsT, plangT>>

SharedLexicalizeTarget ==
    /\ SharedCall
    /\ LET out == lexicalize_target(0, titleT)
       IN /\ call' = [op |-> "lexicalize_target", target |-> 0]
          /\ result' = Returned(out)
          /\ titleT' = out.title
    /\ UNCHANGED <<authorsFrom, authorsT, plangT>>

SharedLexicalizeKeywords ==
    /\ SharedCall
    /\ \E keywords \in KeywordLists :
         LET out == lexicalize_keywords(keywords, titleT, None, "abstract",
                                        "behandeln")
         IN /\ call' = [op |-> "lexicalize_keywords", keywords |-> keywords,
                        realize |-> "abstract", lexeme |-> "behandeln"]
            /\ result' = Returned(out)
            /\ titleT' = out.title
    /\ UNCHANGED <<authorsFrom, authorsT, plangT>>

SharedLexicalizeCodeexamples ==
    /\ SharedCall
    /\ LET out == lexicalize_codeexamples(0, titleT, None, "enthalten")
       IN /\ call' = [op |-> "lexicalize_codeexamples", examples |-> 0,
                      lexeme |-> "enthalten"]
          /\ result' = Returned(out)
          /\ titleT' = out.title
    /\ UNCHANGED <<authorsFrom, authorsT, plangT>>

SharedLexicalizeExercises ==
    /\ SharedCall
    /\ LET out == lexicalize_exercises(0, titleT, "enthalten")
       IN /\ call' = [op |-> "lexicalize_exercises", exercises |-> 0,
                      lexeme |-> "enthalten"]
          /\ result' = Returned(out)
          /\ titleT' = out.title
    /\ UNCHANGED <<authorsFrom, authorsT, plangT>>

NextShared ==
    \/ SharedLexicalizeTitles
    \/ SharedLexicalizePages
    \/ SharedLexicalizeYear
    \/ SharedLexicalizeLanguage
    \/ SharedLexicalizeTarget
    \/ SharedLexicalizeKeywords
    \/ SharedLexicalizeCodeexamples
    \/ SharedLexicalizeExercises

SpecShared == Init /\ [][NextShared]_vars

(***************************************************************************)
(* Properties of the title that several clauses hold (SpecShared).         *)
(***************************************************************************)
\* the labels under which the tree holds the title
RECURSIVE TitleLabels(_)
TitleLabels(t) ==
    IF ~IsDiamond(t) THEN {}
    ELSE UNION {IF t.kids[i].node = TitleReference THEN {t.kids[i].label}
                ELSE TitleLabels(t.kids[i].node) : i \in 1..Len(t.kids)}

\* the number of places at which the tree holds the title
RECURSIVE TitlePlaces(_, _)
TitlePlaces(t, i) ==
    IF ~IsDiamond(t) \/ i > Len(t.kids) THEN 0
    ELSE (IF t.kids[i].node = TitleReference THEN 1
          ELSE TitlePlaces(t.kids[i].node, 1)) + TitlePlaces(t, i + 1)

\* the tree with the title as it is now in the place of the reference
RECURSIVE Dereferenced(_)
Dereferenced(t) ==
    IF t = TitleReference THEN titleT
    ELSE IF ~IsDiamond(t) THEN t
    ELSE [t EXCEPT !.kids = [i \in 1..Len(t.kids) |->
             [t.kids[i] EXCEPT !.node = Dereferenced(@)]]]

\* the agents and subjects that are now found in the tree: the nodes that
\* were embedded as agent or subject, with the labels they have now
RECURSIVE AgentModes(_)
AgentModes(t) ==
    IF ~IsDiamond(t) THEN {}
    ELSE UNION {(IF t.kids[i].label \in {"AGENS", "SUBJ"}
                 THEN {t.kids[i].node.mode} ELSE {})
                \cup AgentModes(t.kids[i].node) : i \in 1..Len(t.kids)}

\* the label the most recent call gives the title
LabelOfLastCall ==
    IF \/ call.op = "lexicalize_language"
       \/ call.op = "lexicalize_pages" /\ call.lexeme = "laenge"
    THEN "SUBJ"
    ELSE "AGENS"

ReturnedClauses ==
    {i \in 1..Len(result.returned) : IsDiamond(result.returned[i])}

SharedCalls ==
    /\ result.kind = "returned"
    /\ Len(result.returned) > 0

\* C28: the clause lexicalizers embed the title they are given itself, no
\* copy of it: after any sequence of calls with the one title tree every
\* clause that was returned holds that node, once, as its agent or subject,
\* and the label of the node, in every one of the clauses, is the one the
\* most recent call has set (SUBJ after lexicalize_language and after
\* lexicalize_pages with the lexeme of the length, AGENS after the others).
SharedTitleHasLastLabel ==
    SharedCalls =>
        /\ titleT.mode = LabelOfLastCall
        /\ \A i \in ReturnedClauses :
               /\ TitlePlaces(result.returned[i], 1) = 1
               /\ TitleLabels(result.returned[i]) \subseteq {"AGENS", "SUBJ"}
               /\ AgentModes(Dereferenced(result.returned[i])) =
                      {LabelOfLastCall}

\* the title was the agent of the clause of the year, and is the subject,
\* in that clause too, since the clause of the language was made
YearClauseWithSubject ==
    /\ SharedCalls
    /\ call.op = "lexicalize_language"
    /\ \E i \in ReturnedClauses :
           /\ result.returned[i].prop = "erscheinen"
           /\ TitleLabels(result.returned[i]) = {"AGENS"}
           /\ AgentModes(Dereferenced(result.returned[i])) = {"SUBJ"}

====
